---- MODULE Spec2Model ----
(***************************************************************************)
(* A model of the javalang front end: the tokenizer of                     *)
(* src/javalang/tokenizer.py and the recursive-descent parser of           *)
(* src/javalang/parser.py.                                                 *)
(*                                                                         *)
(* The tokenizer is a state machine with one step per iteration of the     *)
(* main scan loop of JavaTokenizer.tokenize.  The parser's procedures are  *)
(* operators over a parser state (the token cursor, the marker stack and   *)
(* the flag parsing_switch_expression_block): each takes the state it is   *)
(* called in and returns the state it leaves, together with the value it   *)
(* returns or the exception it raises.                                     *)
(***************************************************************************)
EXTENDS Integers, Sequences, FiniteSets, TLC

VARIABLES
    \* ---- JavaTokenizer
    tokenizer,      \* the JavaTokenizer object: its fields, and the exception raised
    emitted,        \* the tokens the generator tokenize() has yielded so far
    tpc,            \* "pre" before pre_tokenize, "scan" at the test of the main
                    \* loop, "yield" or "yield_text_block" while the generator is
                    \* suspended at a yield, "done" when it is exhausted, "raised"
                    \* when it raised
    \* ---- Parser.build_binary_operation, applied to a flat list of parts
    parts,          \* the alternating list of operands and operators
    operation,      \* what build_binary_operation(parts) returned or raised
    bpc,            \* "ready" before the call, "done" after it
    \* ---- Parser, in a call of parse_compilation_unit or of parse_switch_rule
    \*      and parse_block that is taken step by step
    parser,         \* the Parser object: the token cursor and the flag
    frame,          \* the local variables of the call
    ppc,            \* the statement the call is at, "returned" or "raised" at its end
    returned        \* what the call returned or raised

lexVars == <<tokenizer, emitted, tpc>>

binVars == <<parts, operation, bpc>>

parVars == <<parser, frame, ppc, returned>>

vars == <<tokenizer, emitted, tpc, parts, operation, bpc, parser, frame, ppc, returned>>

(***************************************************************************)
(* Outcomes of a call: a value returned, or an exception raised.           *)
(***************************************************************************)
None == [k |-> "None"]

Returned(v) == [exc |-> "none", val |-> v]

Raised(e) == [exc |-> e, val |-> None]

\* A local variable: K applied to the value v it is bound to
Bind(v, K(_)) == K(v)

(***************************************************************************)
(* Sequence helpers (Python slices are 0-based and half-open).             *)
(***************************************************************************)
Slice(s, lo, hi) == [n \in 1..(hi - lo) |-> s[lo + n]]

Min(a, b) == IF a < b THEN a ELSE b

Max(a, b) == IF a > b THEN a ELSE b

SetMin(S) == CHOOSE x \in S : \A y \in S : x <= y

SetMax(S) == CHOOSE x \in S : \A y \in S : x >= y

\* the elements of a finite set of integers, ascending
RECURSIVE Ascending(_)
Ascending(S) == IF S = {} THEN <<>> ELSE <<SetMin(S)>> \o Ascending(S \ {SetMin(S)})

(***************************************************************************)
(* Text.  A text is a sequence of characters, each a string of length 1    *)
(* (a character that an escape denotes and that is not ASCII is written    *)
(* chr(n), see Chr).  The value of a token is the string of its            *)
(* characters.  Index k of the code (0-based) is element k + 1.            *)
(***************************************************************************)
RECURSIVE Join(_)
Join(cs) == IF cs = <<>> THEN "" ELSE cs[1] \o Join(Tail(cs))

\* data[lo:hi] as Python clamps it
PySlice(cs, lo, hi) ==
    LET h == Min(hi, Len(cs)) IN IF lo >= h THEN <<>> ELSE Slice(cs, lo, h)

\* does pat occur in cs at index k
OccursAt(cs, pat, k) ==
    /\ k >= 0
    /\ k + Len(pat) <= Len(cs)
    /\ \A n \in 1..Len(pat) : cs[k + n] = pat[n]

\* cs.find(pat, start): the lowest index at or after start, or -1
Find(cs, pat, start) ==
    LET hits == {k \in start..(Len(cs) - Len(pat)) : OccursAt(cs, pat, k)}
    IN IF hits = {} THEN -1 ELSE SetMin(hits)

\* cs.rfind(c, lo, hi): the highest index in [lo, hi), or -1
RFind(cs, c, lo, hi) ==
    LET hits == {k \in lo..(Min(hi, Len(cs)) - 1) : cs[k + 1] = c}
    IN IF hits = {} THEN -1 ELSE SetMax(hits)

\* cs.count(c, lo, hi)
Count(cs, c, lo, hi) ==
    Cardinality({k \in lo..(Min(hi, Len(cs)) - 1) : cs[k + 1] = c})

StartsWith(cs, pat) == OccursAt(cs, pat, 0)

(***************************************************************************)
(* Character classes, as str.isspace, str.isdigit and unicodedata.category *)
(* give them for the characters of the model: ASCII, and the characters    *)
(* chr(n) that a Unicode escape written with the digits 0 and 1 denotes.   *)
(* A character that this notation has no string for is written chr(n).     *)
(***************************************************************************)
NoChar == ""

DecDigits == {"0", "1", "2", "3", "4", "5", "6", "7", "8", "9"}

OctDigits == {"0", "1", "2", "3", "4", "5", "6", "7"}

BinDigits == {"0", "1"}

HexDigits == DecDigits \cup {"a", "b", "c", "d", "e", "f", "A", "B", "C", "D", "E", "F"}

AsciiLetters ==
    {"a", "b", "c", "d", "e", "f", "g", "h", "i", "j", "k", "l", "m",
     "n", "o", "p", "q", "r", "s", "t", "u", "v", "w", "x", "y", "z",
     "A", "B", "C", "D", "E", "F", "G", "H", "I", "J", "K", "L", "M",
     "N", "O", "P", "Q", "R", "S", "T", "U", "V", "W", "X", "Y", "Z"}

\* the printable ASCII characters, from code 32 to code 126 (code 96, which
\* a string of this notation cannot hold, is written as the other codes are)
AsciiPrintable ==
    << " ", "!", "\"", "#", "$", "%", "&", "'", "(", ")", "*", "+", ",", "-",
       ".", "/", "0", "1", "2", "3", "4", "5", "6", "7", "8", "9", ":", ";",
       "<", "=", ">", "?", "@", "A", "B", "C", "D", "E", "F", "G", "H", "I",
       "J", "K", "L", "M", "N", "O", "P", "Q", "R", "S", "T", "U", "V", "W",
       "X", "Y", "Z", "[", "\\", "]", "^", "_", "chr(96)", "a", "b", "c", "d", "e",
       "f", "g", "h", "i", "j", "k", "l", "m", "n", "o", "p", "q", "r", "s",
       "t", "u", "v", "w", "x", "y", "z", "{", "|", "}", "~" >>

\* six.unichr(n), chr(n)
Chr(n) ==
    IF n >= 32 /\ n <= 126 THEN AsciiPrintable[n - 31]
    ELSE IF n = 9 THEN "\t"
    ELSE IF n = 10 THEN "\n"
    ELSE IF n = 12 THEN "\f"
    ELSE IF n = 13 THEN "\r"
    ELSE "chr(" \o ToString(n) \o ")"

\* the codes of the characters that str.isspace, str.strip and the class \s
\* of re take for white space: in ASCII the space, \t, \n, \x0b, \f, \r and
\* \x1c to \x1f, and the spaces of Unicode
WhitespaceCodes ==
    {9, 10, 11, 12, 13, 28, 29, 30, 31, 32, 133, 160, 5760} \cup (8192..8202)
        \cup {8232, 8233, 8239, 8287, 12288}

WhitespaceChars == {Chr(n) : n \in WhitespaceCodes}

\* the white space that int() strips: \x1c to \x1f are not part of it
IntWhitespaceChars == {Chr(n) : n \in WhitespaceCodes \ (28..31)}

\* the letters (categories Lu, Ll, Lo) among the characters chr(n) of the model
EscapedLetters ==
    {Chr(256), Chr(257), Chr(272), Chr(273), Chr(4096), Chr(4097), Chr(4112),
     Chr(4113), Chr(4352), Chr(4353), Chr(4368), Chr(4369)}

\* unicodedata.category(c) in IDENT_START_CATEGORIES
is_java_identifier_start(c) == c \in AsciiLetters \cup {"_", "$"} \cup EscapedLetters

\* unicodedata.category(c) in IDENT_PART_CATEGORIES
IsIdentPart(c) == is_java_identifier_start(c) \/ c \in DecDigits

(***************************************************************************)
(* The token classes of tokenizer.py and their subclass relation.          *)
(***************************************************************************)
KeywordValues ==
    {"abstract", "assert", "boolean", "break", "byte", "case", "catch", "char",
     "class", "const", "continue", "default", "do", "double", "else", "enum",
     "extends", "final", "finally", "float", "for", "goto", "if", "implements",
     "import", "instanceof", "int", "interface", "long", "native", "new",
     "package", "private", "protected", "public", "return", "short", "static",
     "strictfp", "super", "switch", "synchronized", "this", "throw", "throws",
     "transient", "try", "void", "volatile", "while", "var", "yield", "record",
     "sealed", "non-sealed", "permits", "when"}

ModifierValues ==
    {"abstract", "default", "final", "native", "private", "protected", "public",
     "static", "strictfp", "synchronized", "transient", "volatile", "sealed",
     "non-sealed"}

BasicTypeValues == {"boolean", "byte", "char", "double", "float", "int", "long", "short"}

BooleanValues == {"true", "false"}

SeparatorValues == {"(", ")", "{", "}", "[", "]", ";", ",", "."}

OperatorValues ==
    {">>>=", ">>=", "<<=", "%=", "^=", "|=", "&=", "/=", "*=", "-=", "+=", "<<",
     "--", "++", "||", "&&", "!=", ">=", "<=", "==", "%", "^", "|", "&", "/",
     "*", "-", "+", ":", "?", "~", "!", "<", ">", "=", "...", "->", "::"}

OperatorMaxLen == 4

InfixValues ==
    {"||", "&&", "|", "^", "&", "==", "!=", "<", ">", "<=", ">=", "<<", ">>",
     ">>>", "+", "-", "*", "/", "%"}

PrefixValues == {"++", "--", "!", "~", "+", "-"}

PostfixValues == {"++", "--"}

AssignmentValues ==
    {"=", "+=", "-=", "*=", "/=", "&=", "|=", "^=", "%=", "<<=", ">>=", ">>>="}

\* the direct superclass of each token class
SuperClass(c) ==
    CASE c \in {"Modifier", "BasicType"} -> "Keyword"
      [] c \in {"OctalInteger", "BinaryInteger", "HexInteger"} -> "Integer"
      [] c \in {"DecimalFloatingPoint", "HexFloatingPoint"} -> "FloatingPoint"
      [] c \in {"Integer", "DecimalInteger", "FloatingPoint", "Boolean",
                "Character", "String", "Null"} -> "Literal"
      [] OTHER -> "JavaToken"

\* isinstance(token, cls)
IsInstance(token, cls) ==
    LET c1 == token.type
        c2 == SuperClass(c1)
        c3 == SuperClass(c2)
    IN cls \in {c1, c2, c3, "JavaToken"}

NoJavadoc == ""

\* token_type(value, position, javadoc); a javadoc of None is NoJavadoc
JavaToken(type, value, position, javadoc) ==
    [type |-> type, value |-> value, position |-> position, javadoc |-> javadoc]

(***************************************************************************)
(* JavaTokenizer.  The object t has the fields of the class, and exc, the  *)
(* exception that has been raised in it ("none" while none has).           *)
(***************************************************************************)
\* JavaTokenizer.__init__ (i, j and length are set by reset and pre_tokenize)
NewTokenizer(data, ignore_errors) ==
    [data |-> data, length |-> 0, ignore_errors |-> ignore_errors, errors |-> <<>>,
     current_line |-> 1, start_of_line |-> -1, javadoc |-> NoJavadoc,
     i |-> 0, j |-> 0, exc |-> "none"]

At(t, k) == t.data[k + 1]

Throw(t, e) == [t EXCEPT !.exc = e]

\* A call's return: the object as the call leaves it, and the value returned
Ret(t, v) == [t |-> t, val |-> v]

\* JavaTokenizer.error(message, char): char is NoChar when it is not given.
\* The error records the message, the character and the line number (the
\* excerpt of the line that the message ends with is left out).
error(t, message, char) ==
    IF char = NoChar /\ t.j >= Len(t.data)
    THEN Throw(t, "IndexError")
    ELSE LET c == IF char = NoChar THEN At(t, t.j) ELSE char
             e == [message |-> message, char |-> c, line |-> t.current_line]
         IN [t EXCEPT !.errors = Append(@, e),
                      !.exc = IF t.ignore_errors THEN "none" ELSE "LexerError"]

\* the loop of read_digits: the position j, the offset tmp_i and the last
\* character c that was looked at (NoChar for None)
RECURSIVE DigitsLoop(_, _, _, _, _)
DigitsLoop(t, digits, j, tmp_i, c) ==
    IF j + tmp_i < Len(t.data)
    THEN LET d == At(t, j + tmp_i)
         IN IF d \in digits THEN DigitsLoop(t, digits, j + 1 + tmp_i, 0, d)
            ELSE IF d = "_" THEN DigitsLoop(t, digits, j, tmp_i + 1, d)
            ELSE [j |-> j, c |-> d]
    ELSE [j |-> j, c |-> c]

\* the end of read_digits when the loop left j and c: `c in 'lL'` raises
\* TypeError when c is None
DigitsSuffix(t, r) ==
    IF r.c = NoChar THEN Throw([t EXCEPT !.j = r.j], "TypeError")
    ELSE [t EXCEPT !.j = IF r.c \in {"l", "L"} THEN r.j + 1 ELSE r.j]

\* JavaTokenizer.read_digits
read_digits(t, digits) == DigitsSuffix(t, DigitsLoop(t, digits, t.j, 0, NoChar))

read_decimal_integer(t) == read_digits([t EXCEPT !.j = t.i], DecDigits)

read_hex_integer(t) == read_digits([t EXCEPT !.j = t.i + 2], HexDigits)

read_bin_integer(t) == read_digits([t EXCEPT !.j = t.i + 2], BinDigits)

read_octal_integer(t) == read_digits([t EXCEPT !.j = t.i + 1], OctDigits)

\* self.j < len(self.data) and self.data[self.j] in cs
NextIn(t, cs) == t.j < Len(t.data) /\ At(t, t.j) \in cs

SkipIf(t, cs) == IF NextIn(t, cs) THEN [t EXCEPT !.j = t.j + 1] ELSE t

\* self.i = self.j; self.read_decimal_integer()
ReadDecimalAtJ(t) == read_decimal_integer([t EXCEPT !.i = t.j])

\* JavaTokenizer.read_decimal_float_or_integer
read_decimal_float_or_integer(t) ==
    Bind(read_decimal_integer([t EXCEPT !.j = t.i]), LAMBDA t1 :
    IF t1.exc # "none" THEN Ret(t1, None)
    ELSE IF ~NextIn(t1, {".", "e", "E", "f", "F", "d", "D"})
    THEN Ret(t1, "DecimalInteger")
    ELSE
    Bind(IF At(t1, t1.j) = "."
         THEN read_decimal_integer([t1 EXCEPT !.i = t1.j + 1])
         ELSE t1, LAMBDA t2 :
    IF t2.exc # "none" THEN Ret(t2, None)
    ELSE
    Bind(IF NextIn(t2, {"e", "E"})
         THEN ReadDecimalAtJ(SkipIf([t2 EXCEPT !.j = t2.j + 1], {"-", "+"}))
         ELSE t2, LAMBDA t3 :
    IF t3.exc # "none" THEN Ret(t3, None)
    ELSE Ret([SkipIf(t3, {"f", "F", "d", "D"}) EXCEPT !.i = t.i],
             "DecimalFloatingPoint"))))

\* JavaTokenizer.read_hex_integer_or_float
read_hex_integer_or_float(t) ==
    Bind(read_hex_integer([t EXCEPT !.j = t.i + 2]), LAMBDA t1 :
    IF t1.exc # "none" THEN Ret(t1, None)
    ELSE IF ~NextIn(t1, {".", "p", "P"}) THEN Ret(t1, "HexInteger")
    ELSE
    Bind(IF At(t1, t1.j) = "."
         THEN read_digits([t1 EXCEPT !.j = t1.j + 1], HexDigits)
         ELSE t1, LAMBDA t2 :
    IF t2.exc # "none" THEN Ret(t2, None)
    ELSE
    Bind(IF NextIn(t2, {"p", "P"})
         THEN [t2 EXCEPT !.j = t2.j + 1]
         ELSE error(t2, "Invalid hex float literal", NoChar), LAMBDA t3 :
    IF t3.exc # "none" THEN Ret(t3, None)
    ELSE
    Bind(ReadDecimalAtJ(SkipIf(t3, {"-", "+"})), LAMBDA t5 :
    IF t5.exc # "none" THEN Ret(t5, None)
    ELSE Ret([SkipIf(t5, {"f", "F", "d", "D"}) EXCEPT !.i = t.i],
             "HexFloatingPoint")))))

\* JavaTokenizer.read_integer_or_float(c, c_next): `c_next in 'xX'` raises
\* TypeError when c_next is None, which the test c == '0' comes before
read_integer_or_float(t, c, c_next) ==
    IF c = "0" /\ c_next = NoChar THEN Ret(Throw(t, "TypeError"), None)
    ELSE IF c = "0" /\ c_next \in {"x", "X"} THEN read_hex_integer_or_float(t)
    ELSE IF c = "0" /\ c_next \in {"b", "B"}
    THEN Ret(read_bin_integer(t), "BinaryInteger")
    ELSE IF c = "0" /\ c_next \in OctDigits
    THEN Ret(read_octal_integer(t), "OctalInteger")
    ELSE read_decimal_float_or_integer(t)

\* JavaTokenizer.try_separator
try_separator(t) ==
    IF At(t, t.i) \in SeparatorValues
    THEN Ret([t EXCEPT !.j = t.i + 1], TRUE)
    ELSE Ret(t, FALSE)

\* JavaTokenizer.try_operator: the longest operator at i, MAX_LEN at most
try_operator(t) ==
    Bind({l \in 1..Min(t.length - t.i, OperatorMaxLen) :
             Join(PySlice(t.data, t.i, t.i + l)) \in OperatorValues}, LAMBDA ls :
    IF ls = {} THEN Ret(t, FALSE)
    ELSE Ret([t EXCEPT !.j = t.i + SetMax(ls)], TRUE))

\* the token class of an identifier
IdentifierType(ident) ==
    IF ident \in KeywordValues
    THEN (IF ident \in BasicTypeValues THEN "BasicType"
          ELSE IF ident \in ModifierValues THEN "Modifier"
          ELSE "Keyword")
    ELSE IF ident \in BooleanValues THEN "Boolean"
    ELSE IF ident = "null" THEN "Null"
    ELSE "Identifier"

\* the end of the identifier that starts at i
IdentifierEnd(t) ==
    SetMin({e \in (t.i + 1)..Len(t.data) :
               /\ \A k \in (t.i + 1)..(e - 1) : IsIdentPart(At(t, k))
               /\ e = Len(t.data) \/ ~IsIdentPart(At(t, e))})

\* JavaTokenizer.read_identifier
read_identifier(t) ==
    Bind(IdentifierEnd(t), LAMBDA j :
    Ret([t EXCEPT !.j = j], IdentifierType(Join(PySlice(t.data, t.i, j)))))

\* the iteration that takes a backslash for an ordinary character
StringStepNoEscape(t, delim, state, j) ==
    IF j >= t.length
    THEN [t |-> error(t, "Unterminated character/string literal", NoChar),
          state |-> 0, j |-> j, left |-> TRUE]
    ELSE IF At(t, j) = delim THEN [t |-> t, state |-> 0, j |-> j, left |-> TRUE]
    ELSE [t |-> t, state |-> 0, j |-> j + 1, left |-> FALSE]

\* one iteration of the loop of read_string, at position j in the given
\* state: the object, the position and the state it leaves, and whether the
\* loop is left (by break or by an exception)
StringStep(t, delim, state, j) ==
    LET c == At(t, j)
        go(s) == [t |-> t, state |-> s, j |-> j + 1, left |-> FALSE]
        break == [t |-> t, state |-> state, j |-> j, left |-> TRUE]
    IN IF j >= t.length
       THEN [t |-> error(t, "Unterminated character/string literal", NoChar),
             state |-> state, j |-> j, left |-> TRUE]
       ELSE CASE state = 0 ->
                    IF c = "\\" THEN go(1) ELSE IF c = delim THEN break ELSE go(0)
              [] state = 1 ->
                    IF c \in {"b", "t", "n", "f", "r", "u", "\"", "'", "\\"} THEN go(0)
                    ELSE IF c \in {"0", "1", "2", "3"} THEN go(2)
                    ELSE IF c \in OctDigits THEN go(3)
                    ELSE Bind(error(t, "Illegal escape character", c), LAMBDA te :
                         [t |-> te, state |-> 1,
                          j |-> IF te.exc # "none" THEN j ELSE j + 1,
                          left |-> te.exc # "none"])
              [] state = 2 ->
                    IF c \in OctDigits THEN go(3)
                    ELSE IF c = "\\" THEN go(1)
                    ELSE IF c = delim THEN break
                    ELSE go(2)
              [] OTHER ->
                    IF c = "\\" THEN go(1) ELSE IF c = delim THEN break ELSE go(0)

\* the loop `while True` of read_string
RECURSIVE StringLoop(_, _)
StringLoop(delim, r) ==
    IF r.left THEN r ELSE StringLoop(delim, StringStep(r.t, delim, r.state, r.j))

\* JavaTokenizer.read_string
read_string(t) ==
    Bind(StringLoop(At(t, t.i), [t |-> t, state |-> 0, j |-> t.i + 1, left |-> FALSE]),
         LAMBDA r :
    IF r.t.exc # "none" THEN r.t ELSE [r.t EXCEPT !.j = r.j + 1])

\* the object after the text data[t.i:i] is passed, i becoming the position
PassLines(t, i) ==
    Bind(RFind(t.data, "\n", t.i, i), LAMBDA start_of_line :
    IF start_of_line # -1
    THEN [t EXCEPT !.start_of_line = start_of_line,
                   !.current_line = @ + Count(t.data, "\n", t.i, i),
                   !.i = i]
    ELSE [t EXCEPT !.i = i])

\* a mutant of consume_whitespace: without `self.i = self.length` when no
\* other character follows
consume_whitespace_no_end(t) ==
    Bind({k \in (t.i + 1)..(Len(t.data) - 1) : At(t, k) \notin WhitespaceChars},
         LAMBDA hits :
    IF hits = {} THEN t ELSE PassLines(t, SetMin(hits)))

\* JavaTokenizer.consume_whitespace
consume_whitespace(t) ==
    Bind({k \in (t.i + 1)..(Len(t.data) - 1) : At(t, k) \notin WhitespaceChars},
         LAMBDA hits :
    IF hits = {} THEN [t EXCEPT !.i = t.length] ELSE PassLines(t, SetMin(hits)))

\* read_comment when the comment has no terminator and has to have one
UnterminatedComment(t) ==
    Bind(error(t, "Unterminated block comment", NoChar), LAMBDA te :
    IF te.exc # "none" THEN Ret(te, None)
    ELSE Ret([te EXCEPT !.i = te.length], PySlice(t.data, t.i, Len(t.data))))

\* JavaTokenizer.read_comment: the object it leaves and the comment it returns
read_comment(t) ==
    Bind(At(t, t.i + 1) = "/", LAMBDA line :
    Bind(IF line THEN <<"\n">> ELSE <<"*", "/">>, LAMBDA terminator :
    Bind(Find(t.data, terminator, t.i + 2), LAMBDA found :
    IF found = -1 /\ ~line THEN UnterminatedComment(t)
    ELSE Bind(IF found # -1 THEN found + Len(terminator) ELSE t.length, LAMBDA i :
         Ret(PassLines(t, i), PySlice(t.data, t.i, i))))))

(***************************************************************************)
(* int(s, 16) and int(s, 8) as Python parse them, and pre_tokenize.        *)
(***************************************************************************)
HexLower == <<"0", "1", "2", "3", "4", "5", "6", "7", "8", "9", "a", "b", "c", "d", "e", "f">>

HexUpper == <<"0", "1", "2", "3", "4", "5", "6", "7", "8", "9", "A", "B", "C", "D", "E", "F">>

DigitValue(c) == CHOOSE n \in 0..15 : c \in {HexLower[n + 1], HexUpper[n + 1]}

\* the value of a string of digits of the base, underscores skipped
RECURSIVE DigitsValue(_, _, _)
DigitsValue(cs, base, acc) ==
    IF cs = <<>> THEN acc
    ELSE IF cs[1] = "_" THEN DigitsValue(Tail(cs), base, acc)
    ELSE DigitsValue(Tail(cs), base, acc * base + DigitValue(cs[1]))

\* s.strip()
RECURSIVE LStrip(_)
LStrip(cs) == IF cs # <<>> /\ cs[1] \in WhitespaceChars THEN LStrip(Tail(cs)) ELSE cs

RECURSIVE RStrip(_)
RStrip(cs) ==
    IF cs # <<>> /\ cs[Len(cs)] \in WhitespaceChars
    THEN RStrip(SubSeq(cs, 1, Len(cs) - 1))
    ELSE cs

Strip(cs) == RStrip(LStrip(cs))

\* cs without the white space that int() strips at both ends
RECURSIVE IntStrip(_)
IntStrip(cs) ==
    IF cs # <<>> /\ cs[1] \in IntWhitespaceChars THEN IntStrip(Tail(cs))
    ELSE IF cs # <<>> /\ cs[Len(cs)] \in IntWhitespaceChars
    THEN IntStrip(SubSeq(cs, 1, Len(cs) - 1))
    ELSE cs

\* int of the digits of a literal of base 16, after its sign and prefix
HexDigitsInt(rest) ==
    IF /\ rest # <<>>
       /\ \A n \in 1..Len(rest) : rest[n] \in HexDigits \cup {"_"}
       /\ rest[1] # "_"
       /\ rest[Len(rest)] # "_"
       /\ \A n \in 1..(Len(rest) - 1) : ~(rest[n] = "_" /\ rest[n + 1] = "_")
    THEN [ok |-> TRUE, val |-> DigitsValue(rest, 16, 0)]
    ELSE [ok |-> FALSE, val |-> 0]

\* int of a literal of base 16 without sign: a prefix 0x or 0X, which an
\* underscore may follow, and the digits
HexUnsignedInt(body) ==
    IF Len(body) >= 2 /\ body[1] = "0" /\ body[2] \in {"x", "X"}
    THEN (IF Len(body) >= 3 /\ body[3] = "_"
          THEN HexDigitsInt(SubSeq(body, 4, Len(body)))
          ELSE HexDigitsInt(SubSeq(body, 3, Len(body))))
    ELSE HexDigitsInt(body)

Negated(r) == [r EXCEPT !.val = 0 - r.val]

HexSignedInt(s) ==
    IF s # <<>> /\ s[1] = "-" THEN Negated(HexUnsignedInt(Tail(s)))
    ELSE IF s # <<>> /\ s[1] = "+" THEN HexUnsignedInt(Tail(s))
    ELSE HexUnsignedInt(s)

\* int(cs, 16): white space around it stripped, a sign, a prefix 0x, and
\* digits that single underscores may separate; ValueError (ok is FALSE)
\* for the rest
HexInt(cs) == HexSignedInt(IntStrip(cs))

PreNONE == 0

PreELIGIBLE == 1

PreMARKER_FOUND == 2

\* the local variables of pre_tokenize when its loop starts
PreLocals(data) ==
    [data |-> data, i |-> 0, j |-> 0, state |-> PreNONE, new_data |-> <<>>,
     escape_code |-> <<>>]

\* the MARKER_FOUND branch of the loop of pre_tokenize at a character that
\* is not u.  The local escape_code is <<>> while it is unbound, and <<n>>
\* once it is n; six.unichr raises ValueError for a code that is negative.
PreEscape(t, l) ==
    Bind(PySlice(l.data, l.j, l.j + 4), LAMBDA digits :
    Bind(HexInt(digits), LAMBDA parsed :
    Bind(IF parsed.ok THEN t
         ELSE error(t, "Invalid unicode escape", Join(digits)), LAMBDA t1 :
    Bind(IF parsed.ok THEN <<parsed.val>> ELSE l.escape_code, LAMBDA code :
    IF t1.exc # "none" THEN [t |-> t1, l |-> l, left |-> TRUE]
    ELSE IF code = <<>>
    THEN [t |-> Throw(t1, "UnboundLocalError"), l |-> l, left |-> TRUE]
    ELSE IF code[1] < 0
    THEN [t |-> Throw(t1, "ValueError"), l |-> l, left |-> TRUE]
    ELSE [t |-> t1,
          l |-> [l EXCEPT !.escape_code = code,
                          !.new_data = Append(@, Chr(code[1])),
                          !.i = l.j + 4, !.j = l.j + 4,
                          !.state = PreNONE],
          left |-> FALSE]))))

\* the NONE branch of the loop of pre_tokenize
PreFind(t, l) ==
    Bind(Find(l.data, <<"\\">>, l.j), LAMBDA found :
    IF found = -1
    THEN [t |-> t, l |-> [l EXCEPT !.j = Len(l.data)], left |-> TRUE]
    ELSE [t |-> t, l |-> [l EXCEPT !.j = found + 1, !.state = PreELIGIBLE],
          left |-> FALSE])

\* the iteration that, at a character other than u after a backslash, goes
\* back to the search without passing that character: a backslash that
\* follows a backslash is then the start of an escape too
PreStepEveryBackslash(t, l) ==
    LET c == l.data[l.j + 1]
    IN CASE l.state = PreNONE -> PreFind(t, l)
         [] l.state = PreELIGIBLE /\ c = "u" ->
                [t |-> t,
                 l |-> [l EXCEPT !.state = PreMARKER_FOUND,
                                 !.new_data = @ \o PySlice(l.data, l.i, l.j - 1),
                                 !.j = l.j + 1],
                 left |-> FALSE]
         [] l.state = PreELIGIBLE /\ c # "u" ->
                [t |-> t, l |-> [l EXCEPT !.state = PreNONE],
                 left |-> FALSE]
         [] l.state = PreMARKER_FOUND /\ c = "u" ->
                [t |-> t, l |-> [l EXCEPT !.j = l.j + 1], left |-> FALSE]
         [] OTHER -> PreEscape(t, l)

\* one iteration of the loop of pre_tokenize: the object and the locals it
\* leaves, and whether the loop is left (by break or by an exception)
PreStep(t, l) ==
    LET c == l.data[l.j + 1]
    IN CASE l.state = PreNONE -> PreFind(t, l)
         [] l.state = PreELIGIBLE /\ c = "u" ->
                [t |-> t,
                 l |-> [l EXCEPT !.state = PreMARKER_FOUND,
                                 !.new_data = @ \o PySlice(l.data, l.i, l.j - 1),
                                 !.j = l.j + 1],
                 left |-> FALSE]
         [] l.state = PreELIGIBLE /\ c # "u" ->
                [t |-> t, l |-> [l EXCEPT !.state = PreNONE, !.j = l.j + 1],
                 left |-> FALSE]
         [] l.state = PreMARKER_FOUND /\ c = "u" ->
                [t |-> t, l |-> [l EXCEPT !.j = l.j + 1], left |-> FALSE]
         [] OTHER -> PreEscape(t, l)

\* the loop `while j < length` of pre_tokenize
RECURSIVE PreLoop(_)
PreLoop(r) ==
    IF r.left \/ r.l.j >= Len(r.l.data) THEN r ELSE PreLoop(PreStep(r.t, r.l))

\* JavaTokenizer.pre_tokenize (the data is text already: decode_data returns it)
pre_tokenize(t) ==
    Bind(PreLoop([t |-> t, l |-> PreLocals(t.data), left |-> FALSE]), LAMBDA r :
    Bind(r.l.new_data \o PySlice(r.l.data, r.l.i, Len(r.l.data)), LAMBDA data :
    IF r.t.exc # "none" THEN r.t
    ELSE [r.t EXCEPT !.data = data, !.length = Len(data)]))

(***************************************************************************)
(* Text blocks: read_text_block and _process_escape.  The iterator         *)
(* char_iter is the sequence of the characters it has still to give.       *)
(***************************************************************************)
\* int(cs, 8) of a string of octal digits
OctInt(cs) == DigitsValue(cs, 8, 0)

\* the octal branch of _process_escape: the digits it keeps and what is
\* left of the iterator (a character read and not kept is lost)
OctalSequence(c, rest) ==
    IF rest = <<>> THEN [seq |-> <<c>>, rest |-> <<>>]
    ELSE IF rest[1] \notin OctDigits THEN [seq |-> <<c>>, rest |-> Tail(rest)]
    ELSE IF Tail(rest) = <<>> THEN [seq |-> <<c, rest[1]>>, rest |-> <<>>]
    ELSE IF rest[2] \notin OctDigits \/ DigitValue(c) > 3
    THEN [seq |-> <<c, rest[1]>>, rest |-> Tail(Tail(rest))]
    ELSE [seq |-> <<c, rest[1], rest[2]>>, rest |-> Tail(Tail(rest))]

\* the value of an octal escape and the iterator after it
OctalEscape(t, oct) == [t |-> t, out |-> <<Chr(OctInt(oct.seq))>>, rest |-> oct.rest]

\* JavaTokenizer._process_escape(char_iter): the object, the characters
\* returned and the iterator as the call leaves them
_process_escape(t, char_iter) ==
    IF char_iter = <<>>
    THEN [t |-> error(t, "Unterminated escape sequence", NoChar),
          out |-> <<"\\">>, rest |-> <<>>]
    ELSE LET escape_char == char_iter[1]
             rest == Tail(char_iter)
         IN CASE escape_char = "b" -> [t |-> t, out |-> <<Chr(8)>>, rest |-> rest]
              [] escape_char = "t" -> [t |-> t, out |-> <<"\t">>, rest |-> rest]
              [] escape_char = "n" -> [t |-> t, out |-> <<"\n">>, rest |-> rest]
              [] escape_char = "f" -> [t |-> t, out |-> <<"\f">>, rest |-> rest]
              [] escape_char = "r" -> [t |-> t, out |-> <<"\r">>, rest |-> rest]
              [] escape_char = "s" -> [t |-> t, out |-> <<" ">>, rest |-> rest]
              [] escape_char \in {"\"", "'", "\\"} ->
                    [t |-> t, out |-> <<escape_char>>, rest |-> rest]
              [] escape_char \in OctDigits ->
                    OctalEscape(t, OctalSequence(escape_char, rest))
              [] OTHER ->
                    [t |-> error(t, "Illegal escape character", escape_char),
                     out |-> <<"\\", escape_char>>, rest |-> rest]

\* the loop of read_text_block over char_iter, final_chars being collected
RECURSIVE EscapeLoop(_, _, _)
EscapeLoop(t, char_iter, final_chars) ==
    IF char_iter = <<>> THEN Ret(t, final_chars)
    ELSE IF char_iter[1] = "\\"
    THEN Bind(_process_escape(t, Tail(char_iter)), LAMBDA r :
         IF r.t.exc # "none" THEN Ret(r.t, None)
         ELSE EscapeLoop(r.t, r.rest, final_chars \o r.out))
    ELSE EscapeLoop(t, Tail(char_iter), Append(final_chars, char_iter[1]))

\* s.replace('\r\n', '\n').replace('\r', '\n')
RECURSIVE NormalizeLines(_)
NormalizeLines(cs) ==
    IF cs = <<>> THEN <<>>
    ELSE IF cs[1] = "\r" /\ Len(cs) >= 2 /\ cs[2] = "\n"
    THEN <<"\n">> \o NormalizeLines(Tail(Tail(cs)))
    ELSE IF cs[1] = "\r" THEN <<"\n">> \o NormalizeLines(Tail(cs))
    ELSE <<cs[1]>> \o NormalizeLines(Tail(cs))

\* s.split('\n')
RECURSIVE SplitLines(_)
SplitLines(cs) ==
    Bind(Find(cs, <<"\n">>, 0), LAMBDA k :
    IF k = -1 THEN <<cs>>
    ELSE <<PySlice(cs, 0, k)>> \o SplitLines(PySlice(cs, k + 1, Len(cs))))

\* '\n'.join(lines)
RECURSIVE JoinLines(_)
JoinLines(lines) ==
    IF Len(lines) = 1 THEN lines[1]
    ELSE lines[1] \o <<"\n">> \o JoinLines(Tail(lines))

\* the text with the backslash before a line terminator removed and the
\* line terminator kept
RECURSIVE RemoveBackslashOfContinuers(_)
RemoveBackslashOfContinuers(cs) ==
    IF cs = <<>> THEN <<>>
    ELSE IF cs[1] = "\\" /\ Len(cs) >= 2 /\ cs[2] = "\n"
    THEN <<"\n">> \o RemoveBackslashOfContinuers(Tail(Tail(cs)))
    ELSE <<cs[1]>> \o RemoveBackslashOfContinuers(Tail(cs))

\* re.sub(r'\\\n', '', s)
RECURSIVE RemoveLineContinuers(_)
RemoveLineContinuers(cs) ==
    IF cs = <<>> THEN <<>>
    ELSE IF cs[1] = "\\" /\ Len(cs) >= 2 /\ cs[2] = "\n"
    THEN RemoveLineContinuers(Tail(Tail(cs)))
    ELSE <<cs[1]>> \o RemoveLineContinuers(Tail(cs))

\* the least indent of all the lines, the blank ones too
MinIndentOfAll(lines) ==
    SetMin({Len(lines[n]) - Len(LStrip(lines[n])) : n \in 1..Len(lines)})

\* the common indent of the lines that are not blank, 0 when all are
MinIndent(lines) ==
    Bind({Len(lines[n]) - Len(LStrip(lines[n])) :
             n \in {m \in 1..Len(lines) : LStrip(lines[m]) # <<>>}}, LAMBDA indents :
    IF indents = {} THEN 0 ELSE SetMin(indents))

\* the lines without the indent and without trailing white space
Unindented(lines, min_indent) ==
    [n \in 1..Len(lines) |->
        IF Strip(lines[n]) = <<>> THEN <<>>
        ELSE RStrip(PySlice(lines[n], min_indent, Len(lines[n])))]

ProcessedLines(lines) == Unindented(lines, MinIndent(lines))

\* the text of a block, from the raw text between the delimiters, as it is
\* before the escapes are processed
BlockContent(raw_content_block) ==
    RemoveLineContinuers(JoinLines(ProcessedLines(
        SplitLines(NormalizeLines(raw_content_block)))))

TripleQuote == <<"\"", "\"", "\"">>

\* the line counters after the raw text data[i:hi]
CountLines(t, hi) ==
    Bind(Count(t.data, "\n", t.i, hi), LAMBDA n :
    IF n > 0
    THEN [t EXCEPT !.current_line = @ + n,
                   !.start_of_line = RFind(t.data, "\n", t.i, hi)]
    ELSE t)

\* read_text_block when there is no closing delimiter after i
UnterminatedTextBlock(t) ==
    Bind(error(t, "Unterminated text block", NoChar), LAMBDA te :
    IF te.exc # "none" THEN Ret(te, None)
    ELSE Ret(CountLines([te EXCEPT !.j = te.length], Len(te.data)), <<>>))

\* read_text_block when the closing delimiter is at closing_marker_index
TerminatedTextBlock(t, closing_marker_index) ==
    Bind(EscapeLoop(CountLines([t EXCEPT !.j = closing_marker_index + 3],
                               closing_marker_index),
                    BlockContent(PySlice(t.data, t.i, closing_marker_index)),
                    <<>>), LAMBDA r :
    IF r.t.exc # "none" THEN r ELSE Ret([r.t EXCEPT !.i = r.t.j], r.val))

\* the text block after its opening delimiter, which ended at i
TextBlockBody(t) ==
    Bind(Find(t.data, TripleQuote, t.i), LAMBDA closing_marker_index :
    IF closing_marker_index = -1 THEN UnterminatedTextBlock(t)
    ELSE TerminatedTextBlock(t, closing_marker_index))

\* JavaTokenizer.read_text_block: the object it leaves and the value it
\* returns (the characters of the text)
read_text_block(t) == TextBlockBody([t EXCEPT !.i = t.i + 3])

(***************************************************************************)
(* JavaTokenizer.tokenize: one step per iteration of the loop              *)
(* `while self.i < self.length`.                                           *)
(***************************************************************************)
\* c_next of the loop, NoChar for None
CNext(t) == IF t.i + 1 < t.length THEN At(t, t.i + 1) ELSE NoChar

\* the branch of the if-chain that the iteration at t.i takes
Branch(t) ==
    LET c == At(t, t.i)
        c_next == CNext(t)
    IN IF c \in WhitespaceChars THEN "whitespace"
       ELSE IF c = "/" /\ c_next \in {"/", "*"} THEN "comment"
       ELSE IF c = "." /\ c_next = "." /\ try_operator(t).val THEN "operator"
       ELSE IF c = "@" THEN "annotation"
       ELSE IF c = "." /\ c_next \in DecDigits THEN "number"
       ELSE IF try_separator(t).val THEN "separator"
       ELSE IF c = "\"" /\ t.i + 2 < t.length /\ At(t, t.i + 1) = "\""
                        /\ At(t, t.i + 2) = "\"" THEN "text_block"
       ELSE IF c \in {"\"", "'"} THEN "string"
       ELSE IF c \in DecDigits THEN "number"
       ELSE IF is_java_identifier_start(c) THEN "identifier"
       ELSE IF try_operator(t).val THEN "operator"
       ELSE "unknown"

Position(line, column) == [line |-> line, column |-> column]

\* the branch b, one of those that set token_type: the object with j set,
\* and the type
ReadToken(t, b) ==
    CASE b = "operator" -> Ret(try_operator(t).t, "Operator")
      [] b = "annotation" -> Ret([t EXCEPT !.j = t.i + 1], "Annotation")
      [] b = "number" ->
            IF At(t, t.i) = "." THEN read_decimal_float_or_integer(t)
            ELSE read_integer_or_float(t, At(t, t.i), CNext(t))
      [] b = "separator" -> Ret(try_separator(t).t, "Separator")
      [] b = "string" -> Ret(read_string(t), "String")
      [] b = "identifier" -> read_identifier(t)

\* the places where an iteration leaves the generator: "loop" at the test of
\* the while (after a continue, or at an exception), "yield" suspended at the
\* `yield token` that ends the loop body, "yield_text_block" suspended at the
\* `yield token` of the text-block branch
Suspended == {"yield", "yield_text_block"}

\* the end of an iteration that made a token, up to `yield token`: the token
\* is handed to the consumer; the javadoc and i are as they were
Yield(t, token_type) ==
    [t |-> t,
     out |-> <<JavaToken(token_type, Join(PySlice(t.data, t.i, t.j)),
                         Position(t.current_line, t.i - t.start_of_line),
                         t.javadoc)>>,
     at |-> "yield"]

\* the text-block branch up to its `yield token`: the token has the position
\* of the opening quotes
YieldTextBlock(t) ==
    Bind(read_text_block(t), LAMBDA r :
    IF r.t.exc # "none" THEN [t |-> r.t, out |-> <<>>, at |-> "loop"]
    ELSE [t |-> r.t,
          out |-> <<JavaToken("String", Join(r.val),
                              Position(t.current_line, t.i - t.start_of_line),
                              t.javadoc)>>,
          at |-> "yield_text_block"])

\* the generator is resumed after the yield at `at`: the pending javadoc is
\* dropped; after the yield of the loop body i moves to j, after the yield of
\* the text-block branch i stays where read_text_block left it
AfterYield(t, at) ==
    IF at = "yield" THEN [t EXCEPT !.javadoc = NoJavadoc, !.i = t.j]
    ELSE [t EXCEPT !.javadoc = NoJavadoc]

\* the comment branch: a comment that starts with /** is the pending javadoc
SkipComment(t) ==
    Bind(read_comment(t), LAMBDA rc :
    [t |-> IF rc.t.exc = "none" /\ StartsWith(rc.val, <<"/", "*", "*">>)
           THEN [rc.t EXCEPT !.javadoc = Join(rc.val)]
           ELSE rc.t,
     out |-> <<>>, at |-> "loop"])

\* the last branch: no token starts with the character at i
SkipUnknown(t) ==
    Bind(error(t, "Could not process token", At(t, t.i)), LAMBDA te :
    [t |-> IF te.exc # "none" THEN te ELSE [te EXCEPT !.i = te.i + 1],
     out |-> <<>>, at |-> "loop"])

\* the iteration that takes branch b, up to the place where it leaves the
\* generator: the object, the token it yields there, and the place
UntilYield(t, b) ==
    CASE b = "whitespace" ->
            [t |-> consume_whitespace(t), out |-> <<>>, at |-> "loop"]
      [] b = "comment" -> SkipComment(t)
      [] b = "text_block" -> YieldTextBlock(t)
      [] b = "unknown" -> SkipUnknown(t)
      [] OTHER -> Bind(ReadToken(t, b), LAMBDA rt :
                  IF rt.t.exc # "none" THEN [t |-> rt.t, out |-> <<>>, at |-> "loop"]
                  ELSE Yield(rt.t, rt.val))

\* the iteration that takes branch b with a consumer that resumes the
\* generator at once, as list() does: the object at the next test of the
\* while, and the tokens the iteration yields
BranchStep(t, b) ==
    Bind(UntilYield(t, b), LAMBDA r :
    [t |-> IF r.at \in Suspended THEN AfterYield(r.t, r.at) ELSE r.t,
     out |-> r.out])

\* one iteration of the loop: the object it leaves and the tokens it yields
LoopStep(t) == BranchStep(t, Branch(t))

\* tokenize() from its first statement to the exhaustion of the generator
\* or to the exception that ends it
RECURSIVE RunLoop(_, _)
RunLoop(t, tokens) ==
    IF t.exc # "none" \/ t.i >= t.length THEN [t |-> t, tokens |-> tokens]
    ELSE Bind(LoopStep(t), LAMBDA r : RunLoop(r.t, tokens \o r.out))

\* list(tokenize(code, ignore_errors))
tokenize(code, ignore_errors) ==
    RunLoop(pre_tokenize(NewTokenizer(code, ignore_errors)), <<>>)

(***************************************************************************)
(* Parser.operator_precedence: the levels, lowest first.  Level l of the   *)
(* code (0-based) is operator_precedence[l + 1].                           *)
(***************************************************************************)
operator_precedence ==
    << {"||"}, {"&&"}, {"|"}, {"^"}, {"&"}, {"==", "!="},
       {"<", ">", ">=", "<=", "instanceof"}, {"<<", ">>", ">>>"},
       {"+", "-"}, {"*", "/", "%"} >>

NumLevels == Len(operator_precedence)

(***************************************************************************)
(* A part at an operator position is a record, so that the plain string    *)
(* operators and the tuples that parse_expression_2_rest builds for        *)
(* instanceof share one shape:                                             *)
(*   'x'                          is [k |-> "op", value |-> x]             *)
(*   ('instanceof_pattern', n)    is [k |-> "instanceof_pattern", node..]  *)
(*   ('instanceof_type', n)       is [k |-> "instanceof_type", node..]     *)
(***************************************************************************)
Op(v) == [k |-> "op", value |-> v]

InstanceofPart(tag, n) == [k |-> tag, node |-> n]

\* tree.Literal(value=...) with no prefix, postfix, qualifier or selector
Literal(v) == [k |-> "Literal", value |-> v]

\* parts[j] in self.operator_precedence[level]: a tuple is in no level
InLevel(p, level) == p.k = "op" /\ p.value \in operator_precedence[level + 1]

\* the operator positions j (0-based, odd, below len - 1) that match the level
SplitsAt(ps, level) ==
    {j \in 1..(Len(ps) - 2) : j % 2 = 1 /\ InLevel(ps[j + 1], level)}

\* the levels of range(start_level, len(operator_precedence)) with a match
MatchingLevels(ps, start_level) ==
    {l \in start_level..(NumLevels - 1) : SplitsAt(ps, l) # {}}

BinaryOperation(operator, operandl, operandr) ==
    [k |-> "BinaryOperation", operator |-> operator,
     operandl |-> operandl, operandr |-> operandr]

InstanceOfPatternExpression(expression, type, pattern) ==
    [k |-> "InstanceOfPatternExpression", expression |-> expression,
     type |-> type, pattern |-> pattern]

\* one turn of the loop over zip(operators, operands[1:])
FoldStep(acc, operator, operandr) ==
    IF operator.k = "instanceof_pattern"
    THEN InstanceOfPatternExpression(acc, operator.node.type, operator.node)
    ELSE IF operator.k = "instanceof_type"
    THEN BinaryOperation("instanceof", acc, operator.node)
    ELSE BinaryOperation(operator.value, acc, operandr)

RECURSIVE FoldLeft(_, _, _, _)
FoldLeft(acc, operators, operands, n) ==
    IF n > Len(operators) THEN acc
    ELSE FoldLeft(FoldStep(acc, operators[n], operands[n + 1]),
                  operators, operands, n + 1)

\* a mutant of FoldOperation: the operands are folded from the right
RECURSIVE FoldRight(_, _, _)
FoldRight(operators, operands, n) ==
    IF n > Len(operators) THEN operands[n]
    ELSE BinaryOperation(operators[n].value, operands[n],
                         FoldRight(operators, operands, n + 1))

FoldOperationRightAssoc(operators, operands) == FoldRight(operators, operands, 1)

\* operation = operands[0]; for operator, operandr in zip(...): ...
FoldOperation(operators, operands) == FoldLeft(operands[1], operators, operands, 1)

(***************************************************************************)
(* Parser.build_binary_operation(parts, start_level).                      *)
(*                                                                         *)
(* The loop over the levels stops at the first level with a matching       *)
(* operator; i is still 0 when that level starts.  When no level matches,  *)
(* the loop variable keeps its last value, len(operator_precedence) - 1,   *)
(* and when the range is empty it is unbound, so that `level + 1` raises   *)
(* UnboundLocalError.                                                      *)
(***************************************************************************)
RECURSIVE build_binary_operation(_, _)
build_binary_operation(ps, start_level) ==
    IF Len(ps) = 1 THEN Returned(ps[1])
    ELSE IF start_level >= NumLevels THEN Raised("UnboundLocalError")
    ELSE LET ml == MatchingLevels(ps, start_level)
         IN IF ml = {}
            THEN build_binary_operation(ps, NumLevels)
            ELSE LET level == SetMin(ml)
                     js == Ascending(SplitsAt(ps, level))
                     n == Len(js)
                     \* parts[i:j] for each split, then parts[i:]
                     seg(m) == Slice(ps, IF m = 1 THEN 0 ELSE js[m - 1] + 1,
                                     IF m = n + 1 THEN Len(ps) ELSE js[m])
                     sub == [m \in 1..(n + 1) |->
                                build_binary_operation(seg(m), level + 1)]
                     bad == {m \in 1..(n + 1) : sub[m].exc # "none"}
                     operators == [m \in 1..n |-> ps[js[m] + 1]]
                     operands == [m \in 1..(n + 1) |-> sub[m].val]
                 IN IF bad # {} THEN Raised(sub[SetMin(bad)].exc)
                    ELSE Returned(FoldOperation(operators, operands))

(***************************************************************************)
(* The parser, src/javalang/parser.py.                                     *)
(*                                                                         *)
(* The Parser object p has the token cursor self.tokens (the token list,   *)
(* the position marker and the stack saved_markers) and the flag           *)
(* parsing_switch_expression_block.  A parse procedure f of the class is   *)
(* the operator f(p): it returns the object as the call leaves it, with    *)
(* the value returned (exc = "none") or the exception raised.              *)
(*                                                                         *)
(* parser.py as given has two stretches of text that Python rejects: the   *)
(* fragment headed `def parse_switch_rule` that precedes the procedure of  *)
(* that name, and in parse_statement an `else` of the expression          *)
(* statement that stands before the `elif` of `yield` and the same `else`  *)
(* after it.  The fragment is overridden by the definition that follows    *)
(* it; the chain of parse_statement is read as its comment and the tests   *)
(* of the repository say, with the test of `yield` before the default      *)
(* expression statement.                                                   *)
(*                                                                         *)
(* The specifications below parse a fixed family of inputs.  A branch of   *)
(* a procedure that these inputs never take is cut off with the outcome    *)
(* "NotModelled", and NoCutOff checks that no run reaches one.             *)
(***************************************************************************)
Return(p, v) == [p |-> p, exc |-> "none", val |-> v]

Raise(p, e) == [p |-> p, exc |-> e, val |-> None]

\* r; K(the object, the value returned): K is skipped when r raised
Then(r, K(_, _)) == IF r.exc = "none" THEN K(r.p, r.val) ELSE r

\* try: r   except e: H(the object)
Except(r, e, H(_)) == IF r.exc = e THEN H(r.p) ELSE r

NotModelled(p) == Raise(p, "NotModelled")

(***************************************************************************)
(* The token cursor.  util.py is not part of the sources at hand; the      *)
(* cursor follows its description: look(i) never consumes and gives the    *)
(* default token past the end, next() consumes one token and raises        *)
(* StopIteration past the end, push_marker() opens a checkpoint, and       *)
(* pop_marker(accept) closes the last one, going back to it unless accept. *)
(* As a scope (`with self.tokens:`) it pushes a marker on entry and pops   *)
(* it on exit, going back when the body raised.                            *)
(*                                                                         *)
(* What pop_marker does when no marker is open is not described: it        *)
(* either raises IndexError (strict_pop) or does nothing.  unmatched_pops  *)
(* is a history counter of such calls, not a field of the cursor.          *)
(***************************************************************************)
NoValue == "<no value>"

NoPosition == 0

\* EndOfInput(None), the default of the cursor
EndOfInputToken == JavaToken("EndOfInput", NoValue, NoPosition, NoJavadoc)

\* Parser.__init__
NewParser(tokens, strict_pop) ==
    [tokens |-> tokens, marker |-> 0, saved_markers |-> <<>>,
     strict_pop |-> strict_pop, unmatched_pops |-> 0,
     parsing_switch_expression_block |-> FALSE]

look(p, i) ==
    IF p.marker + i < Len(p.tokens) THEN p.tokens[p.marker + i + 1]
    ELSE EndOfInputToken

next(p) ==
    IF p.marker < Len(p.tokens)
    THEN Return([p EXCEPT !.marker = @ + 1], p.tokens[p.marker + 1])
    ELSE Raise(p, "StopIteration")

push_marker(p) == [p EXCEPT !.saved_markers = Append(@, p.marker)]

pop_marker(p, accept) ==
    IF p.saved_markers = <<>>
    THEN (IF p.strict_pop
          THEN Raise([p EXCEPT !.unmatched_pops = @ + 1], "IndexError")
          ELSE Return([p EXCEPT !.unmatched_pops = @ + 1], None))
    ELSE Return([p EXCEPT !.saved_markers = SubSeq(@, 1, Len(@) - 1),
                          !.marker = IF accept THEN @
                                     ELSE p.saved_markers[Len(p.saved_markers)]],
                None)

\* __exit__ of `with self.tokens:`; r is the outcome of the body
ExitScope(r) ==
    Bind(pop_marker(r.p, r.exc = "none"), LAMBDA e :
    IF e.exc # "none" THEN e ELSE [r EXCEPT !.p = e.p])

\* with self.tokens: Body
WithTokens(p, Body(_)) == ExitScope(Body(push_marker(p)))

(***************************************************************************)
(* Helper methods.  An acceptable value is a string, compared with the     *)
(* value of the token, or a token class, tested with isinstance.           *)
(***************************************************************************)
Val(s) == [is |-> "value", x |-> s]

Cls(c) == [is |-> "type", x |-> c]

Matches(token, a) ==
    IF a.is = "value" THEN token.value = a.x ELSE IsInstance(token, a.x)

\* Parser.illegal(description): at is self.tokens.look()
illegal(p, description) ==
    [p |-> p, exc |-> "JavaSyntaxError",
     val |-> [k |-> "JavaSyntaxError", description |-> description,
              at |-> look(p, 0)]]

RECURSIVE AcceptLoop(_, _, _, _)
AcceptLoop(p, accepts, n, last) ==
    IF n > Len(accepts) THEN Return(p, last.value)
    ELSE Then(next(p), LAMBDA p1, token :
         IF ~Matches(token, accepts[n])
         THEN illegal(p1, IF accepts[n].is = "value"
                          THEN "Expected '" \o accepts[n].x \o "'"
                          ELSE "Expected " \o accepts[n].x)
         ELSE AcceptLoop(p1, accepts, n + 1, token))

\* Parser.accept(*accepts): the token is consumed before it is tested
accept(p, accepts) ==
    IF Len(accepts) = 0 THEN Raise(p, "JavaParserError")
    ELSE AcceptLoop(p, accepts, 1, None)

\* the loop `for i, accept in enumerate(accepts)` of would_accept and of
\* try_accept: FALSE at the first token that does not match, TRUE after the
\* last value
AllAccepted(p, accepts) ==
    \A n \in 1..Len(accepts) : Matches(look(p, n - 1), accepts[n])

\* Parser.would_accept(*accepts): a call with no value raises JavaParserError;
\* the cursor is never moved.  The value is read with .val where the call
\* names its values
would_accept(p, accepts) ==
    IF Len(accepts) = 0 THEN Raise(p, "JavaParserError")
    ELSE Return(p, AllAccepted(p, accepts))

RECURSIVE Consume(_, _)
Consume(p, n) ==
    IF n = 0 THEN Return(p, TRUE)
    ELSE Then(next(p), LAMBDA p1, token : Consume(p1, n - 1))

\* a mutant of try_accept: each token is consumed before it is tested, as
\* accept does
try_accept_consuming(p, accepts) ==
    IF Len(accepts) = 0 THEN Raise(p, "JavaParserError")
    ELSE Bind(AcceptLoop(p, accepts, 1, None), LAMBDA r :
         IF r.exc = "JavaSyntaxError" THEN Return(r.p, FALSE)
         ELSE IF r.exc = "none" THEN Return(r.p, TRUE) ELSE r)

\* Parser.try_accept(*accepts): a call with no value raises JavaParserError;
\* the tokens are consumed only after all of them were tested
try_accept(p, accepts) ==
    IF Len(accepts) = 0 THEN Raise(p, "JavaParserError")
    ELSE IF AllAccepted(p, accepts) THEN Consume(p, Len(accepts))
    ELSE Return(p, FALSE)

\* Parser.is_annotation(i)
is_annotation(p, i) ==
    IsInstance(look(p, i), "Annotation") /\ look(p, i + 1).value # "interface"

\* Parser.is_annotation_declaration(i)
is_annotation_declaration(p, i) ==
    IsInstance(look(p, i), "Annotation") /\ look(p, i + 1).value = "interface"

(***************************************************************************)
(* Identifiers, types, modifiers.                                          *)
(***************************************************************************)
\* Call(p, method) is the call self.method() of a parse procedure; it is
\* defined after the procedures
RECURSIVE Call(_, _)
RECURSIVE TypeArgumentsLoop(_, _)

parse_identifier(p) == accept(p, <<Cls("Identifier")>>)

RECURSIVE QualifiedIdentifierLoop(_, _)
QualifiedIdentifierLoop(p, qualified_identifier) ==
    Then(Call(p, "parse_identifier"), LAMBDA p1, identifier :
    Then(try_accept(p1, <<Val(".")>>), LAMBDA p2, dot :
    IF dot THEN QualifiedIdentifierLoop(p2, Append(qualified_identifier, identifier))
    ELSE Return(p2, Append(qualified_identifier, identifier))))

\* the value is the list of the identifiers that '.'.join puts together
parse_qualified_identifier(p) == QualifiedIdentifierLoop(p, <<>>)

RECURSIVE ArrayDimensionLoop(_, _)
ArrayDimensionLoop(p, array_dimension) ==
    Then(try_accept(p, <<Val("["), Val("]")>>), LAMBDA p1, more :
    IF more THEN ArrayDimensionLoop(p1, array_dimension + 1)
    ELSE Return(p1, array_dimension))

\* the value is the number of dimensions, the length of [None] * n
parse_array_dimension(p) == ArrayDimensionLoop(p, 0)

parse_basic_type(p) ==
    Then(accept(p, <<Cls("BasicType")>>), LAMBDA p1, name :
    Return(p1, [k |-> "BasicType", name |-> name, dimensions |-> 0]))

parse_type_arguments(p) ==
    Then(accept(p, <<Val("<")>>), LAMBDA p1, x : TypeArgumentsLoop(p1, <<>>))

ReferenceTypeLoop(p, name) ==
    Then(IF would_accept(p, <<Val("<")>>).val THEN Call(p, "parse_type_arguments")
         ELSE Return(p, <<>>), LAMBDA p1, arguments :
    Then(try_accept(p1, <<Val(".")>>), LAMBDA p2, dot :
    IF dot
    THEN Then(Call(p2, "parse_reference_type"), LAMBDA p3, sub_type :
         Return(p3, [k |-> "ReferenceType", name |-> name, arguments |-> arguments,
                     sub_type |-> sub_type, dimensions |-> 0]))
    ELSE Return(p2, [k |-> "ReferenceType", name |-> name, arguments |-> arguments,
                     sub_type |-> None, dimensions |-> 0])))

\* the chain tail.sub_type is built by recursion on the tail
parse_reference_type(p) ==
    Then(Call(p, "parse_identifier"), LAMBDA p1, name : ReferenceTypeLoop(p1, name))

TypeArgumentsLoop(p, type_arguments) ==
    Then(Call(p, "parse_type_argument"), LAMBDA p1, type_argument :
    Then(try_accept(p1, <<Val(">")>>), LAMBDA p2, closed :
    IF closed THEN Return(p2, Append(type_arguments, type_argument))
    ELSE Then(accept(p2, <<Val(",")>>), LAMBDA p3, x :
         TypeArgumentsLoop(p3, Append(type_arguments, type_argument)))))

TypeArgumentBase(p, pattern_type) ==
    Then(IF would_accept(p, <<Cls("BasicType")>>).val
         THEN Then(Call(p, "parse_basic_type"), LAMBDA p1, base_type :
              Then(accept(p1, <<Val("["), Val("]")>>), LAMBDA p2, x :
              Return(p2, [base_type EXCEPT !.dimensions = 1])))
         ELSE Call(p, "parse_reference_type"), LAMBDA p3, base_type :
    Then(Call(p3, "parse_array_dimension"), LAMBDA p4, more :
    Return(p4, [k |-> "TypeArgument",
                type |-> [base_type EXCEPT !.dimensions = @ + more],
                pattern_type |-> pattern_type])))

parse_type_argument(p) ==
    Then(try_accept(p, <<Val("?")>>), LAMBDA p1, wildcard :
    IF ~wildcard THEN TypeArgumentBase(p1, NoValue)
    ELSE IF look(p1, 0).value \in {"extends", "super"}
    THEN Then(next(p1), LAMBDA p2, token : TypeArgumentBase(p2, token.value))
    ELSE Return(p1, [k |-> "TypeArgument", type |-> None, pattern_type |-> "?"]))

parse_type(p) ==
    Then(IF IsInstance(look(p, 0), "BasicType") THEN Call(p, "parse_basic_type")
         ELSE IF IsInstance(look(p, 0), "Identifier") THEN Call(p, "parse_reference_type")
         ELSE illegal(p, "Expected type"), LAMBDA p1, java_type :
    Then(Call(p1, "parse_array_dimension"), LAMBDA p2, dimensions :
    Return(p2, [java_type EXCEPT !.dimensions = dimensions])))

RECURSIVE TypeParameterExtends(_, _)
TypeParameterExtends(p, extends) ==
    Then(Call(p, "parse_reference_type"), LAMBDA p1, reference_type :
    Then(try_accept(p1, <<Val("&")>>), LAMBDA p2, more :
    IF more THEN TypeParameterExtends(p2, Append(extends, reference_type))
    ELSE Return(p2, Append(extends, reference_type))))

parse_type_parameter(p) ==
    Then(Call(p, "parse_identifier"), LAMBDA p1, identifier :
    Then(try_accept(p1, <<Val("extends")>>), LAMBDA p2, bounded :
    IF bounded
    THEN Then(TypeParameterExtends(p2, <<>>), LAMBDA p3, extends :
         Return(p3, [k |-> "TypeParameter", name |-> identifier, extends |-> extends]))
    ELSE Return(p2, [k |-> "TypeParameter", name |-> identifier, extends |-> <<>>])))

RECURSIVE TypeParametersLoop(_, _)
TypeParametersLoop(p, type_parameters) ==
    Then(Call(p, "parse_type_parameter"), LAMBDA p1, type_parameter :
    Then(try_accept(p1, <<Val(">")>>), LAMBDA p2, closed :
    IF closed THEN Return(p2, Append(type_parameters, type_parameter))
    ELSE Then(accept(p2, <<Val(",")>>), LAMBDA p3, x :
         TypeParametersLoop(p3, Append(type_parameters, type_parameter)))))

parse_type_parameters(p) ==
    Then(accept(p, <<Val("<")>>), LAMBDA p1, x : TypeParametersLoop(p1, <<>>))

RECURSIVE ElementValuePairsLoop(_, _)
ElementValuePairsLoop(p, pairs) ==
    Then(Call(p, "parse_identifier"), LAMBDA p1, identifier :
    Then(accept(p1, <<Val("=")>>), LAMBDA p2, x :
    Then(Call(p2, "parse_element_value"), LAMBDA p3, value :
    Then(try_accept(p3, <<Val(",")>>), LAMBDA p4, comma :
    IF comma
    THEN ElementValuePairsLoop(p4, Append(pairs,
             [k |-> "ElementValuePair", name |-> identifier, value |-> value,
              position |-> look(p, 0).position]))
    ELSE Return(p4, Append(pairs,
             [k |-> "ElementValuePair", name |-> identifier, value |-> value,
              position |-> look(p, 0).position]))))))

\* Parser.parse_element_value_pairs, with parse_element_value_pair
parse_element_value_pairs(p) == ElementValuePairsLoop(p, <<>>)

\* Parser.parse_element_value; no input has an array of element values
parse_element_value(p) ==
    IF is_annotation(p, 0)
    THEN Then(Call(p, "parse_annotation"), LAMBDA p1, annotation :
         Return(p1, [annotation EXCEPT !.position = look(p, 0).position]))
    ELSE IF would_accept(p, <<Val("{")>>).val THEN NotModelled(p)
    ELSE Call(p, "parse_expressionl")

\* Parser.parse_annotation_element
parse_annotation_element(p) ==
    IF would_accept(p, <<Cls("Identifier"), Val("=")>>).val
    THEN Call(p, "parse_element_value_pairs")
    ELSE Call(p, "parse_element_value")

\* Parser.parse_annotation
parse_annotation(p) ==
    Then(accept(p, <<Val("@")>>), LAMBDA p1, x :
    Then(Call(p1, "parse_qualified_identifier"), LAMBDA p2, qualified_identifier :
    Then(try_accept(p2, <<Val("(")>>), LAMBDA p3, open :
    IF ~open
    THEN Return(p3, [k |-> "Annotation", name |-> qualified_identifier,
                     element |-> None, position |-> NoPosition])
    ELSE IF would_accept(p3, <<Val(")")>>).val
    THEN Then(accept(p3, <<Val(")")>>), LAMBDA p4, y :
         Return(p4, [k |-> "Annotation", name |-> qualified_identifier,
                     element |-> None, position |-> NoPosition]))
    ELSE Then(Call(p3, "parse_annotation_element"), LAMBDA p4, annotation_element :
         Then(accept(p4, <<Val(")")>>), LAMBDA p5, y :
         Return(p5, [k |-> "Annotation", name |-> qualified_identifier,
                     element |-> annotation_element, position |-> NoPosition]))))))

RECURSIVE ModifiersLoop(_, _, _)
ModifiersLoop(p, modifiers, annotations) ==
    IF would_accept(p, <<Cls("Modifier")>>).val
    THEN Then(accept(p, <<Cls("Modifier")>>), LAMBDA p1, modifier :
         ModifiersLoop(p1, modifiers \cup {modifier}, annotations))
    ELSE IF is_annotation(p, 0)
    THEN Then(Call(p, "parse_annotation"), LAMBDA p1, annotation :
         ModifiersLoop(p1, modifiers,
             Append(annotations, [annotation EXCEPT !.position = look(p, 0).position])))
    ELSE Return(p, [modifiers |-> modifiers, annotations |-> annotations])

\* the value is (modifiers, annotations, javadoc)
parse_modifiers(p) ==
    Then(ModifiersLoop(p, {}, <<>>), LAMBDA p1, m :
    Return(p1, [modifiers |-> m.modifiers, annotations |-> m.annotations,
                javadoc |-> look(p, 0).javadoc]))

RECURSIVE VariableModifiersLoop(_, _, _)
VariableModifiersLoop(p, modifiers, annotations) ==
    Then(try_accept(p, <<Val("final")>>), LAMBDA p1, final :
    IF final THEN VariableModifiersLoop(p1, modifiers \cup {"final"}, annotations)
    ELSE IF is_annotation(p1, 0)
    THEN Then(Call(p1, "parse_annotation"), LAMBDA p2, annotation :
         VariableModifiersLoop(p2, modifiers,
             Append(annotations, [annotation EXCEPT !.position = look(p, 0).position])))
    ELSE Return(p1, [modifiers |-> modifiers, annotations |-> annotations]))

parse_variable_modifiers(p) == VariableModifiersLoop(p, {}, <<>>)

(***************************************************************************)
(* Type declarations.  A node of the tree is a record: k is its class,     *)
(* the other fields are its attributes.  SetAttrs(node, attrs) is the      *)
(* node after the assignments node.a = v for the attributes of attrs.      *)
(* The list that parse_block returns is [k |-> "list", items |-> ...]      *)
(* where it stands among nodes and None, as a declaration of a class body. *)
(***************************************************************************)
SetAttrs(node, attrs) == attrs @@ node

\* bool(v) of a node, a list or None
Truthy(v) == v.k # "None" /\ (v.k = "list" => v.items # <<>>)

\* Parser.parse_method_or_field_declaraction: no input has a member with a
\* type and a name, the rest of the member is cut off
parse_method_or_field_declaraction(p) ==
    Then(Call(p, "parse_type"), LAMBDA p1, member_type :
    Then(Call(p1, "parse_identifier"), LAMBDA p2, member_name : NotModelled(p2)))

MemberDeclaration(p) ==
    Then(try_accept(p, <<Val("void")>>), LAMBDA p1, void :
    IF void THEN Then(Call(p1, "parse_identifier"), LAMBDA p2, method_name : NotModelled(p2))
    ELSE IF look(p1, 0).value = "<" THEN NotModelled(p1)
    ELSE IF look(p1, 0).value = "class" THEN Call(p1, "parse_normal_class_declaration")
    ELSE IF look(p1, 0).value \in {"enum", "interface"} THEN NotModelled(p1)
    ELSE IF is_annotation_declaration(p1, 0) THEN NotModelled(p1)
    ELSE IF would_accept(p1, <<Cls("Identifier"), Val("(")>>).val
    THEN Then(Call(p1, "parse_identifier"), LAMBDA p2, constructor_name : NotModelled(p2))
    ELSE Call(p1, "parse_method_or_field_declaraction"))

parse_member_declaration(p) ==
    Then(Call(p, "parse_modifiers"), LAMBDA p1, m :
    Then(MemberDeclaration(p1), LAMBDA p2, member :
    Return(p2, SetAttrs(member,
                   [position |-> look(p1, 0).position, modifiers |-> m.modifiers,
                    annotations |-> m.annotations, documentation |-> m.javadoc]))))

parse_class_body_declaration(p) ==
    Then(try_accept(p, <<Val(";")>>), LAMBDA p1, semicolon :
    IF semicolon THEN Return(p1, None)
    ELSE IF would_accept(p1, <<Val("static"), Val("{")>>).val
    THEN Then(accept(p1, <<Val("static")>>), LAMBDA p2, x :
         Then(Call(p2, "parse_block"), LAMBDA p3, block :
         Return(p3, [k |-> "list", items |-> block])))
    ELSE IF would_accept(p1, <<Val("{")>>).val
    THEN Then(Call(p1, "parse_block"), LAMBDA p3, block :
         Return(p3, [k |-> "list", items |-> block]))
    ELSE Call(p1, "parse_member_declaration"))

RECURSIVE ClassBodyLoop(_, _)
ClassBodyLoop(p, declarations) ==
    IF would_accept(p, <<Val("}")>>).val THEN Return(p, declarations)
    ELSE Then(Call(p, "parse_class_body_declaration"), LAMBDA p1, declaration :
         ClassBodyLoop(p1, IF Truthy(declaration) THEN Append(declarations, declaration)
                           ELSE declarations))

parse_class_body(p) ==
    Then(accept(p, <<Val("{")>>), LAMBDA p1, x :
    Then(ClassBodyLoop(p1, <<>>), LAMBDA p2, declarations :
    Then(accept(p2, <<Val("}")>>), LAMBDA p3, y :
    Return(p3, declarations))))

\* Parser.parse_type_list: no input has extends, implements or permits
parse_type_list(p) == NotModelled(p)

\* the clauses `implements` and `permits` are cut off
parse_normal_class_declaration(p) ==
    Then(accept(p, <<Val("class")>>), LAMBDA p1, x :
    Then(Call(p1, "parse_identifier"), LAMBDA p2, name :
    Then(IF would_accept(p2, <<Val("<")>>).val THEN Call(p2, "parse_type_parameters")
         ELSE Return(p2, None), LAMBDA p3, type_params :
    Then(try_accept(p3, <<Val("extends")>>), LAMBDA p4, has_extends :
    Then(IF has_extends THEN Call(p4, "parse_type") ELSE Return(p4, None),
         LAMBDA p5, extends :
    IF look(p5, 0).value \in {"implements", "permits"}
    THEN NotModelled(p5)
    ELSE Then(Call(p5, "parse_class_body"), LAMBDA p6, body :
         Return(p6, [k |-> "ClassDeclaration", name |-> name,
                     type_parameters |-> type_params, extends |-> extends,
                     implements |-> None, permits |-> None, body |-> body])))))))

RECURSIVE RecordComponentsLoop(_, _)
RecordComponentsLoop(p, components) ==
    Then(Call(p, "parse_variable_modifiers"), LAMBDA p1, m :
    Then(Call(p1, "parse_type"), LAMBDA p2, component_type :
    IF would_accept(p2, <<Val("...")>>).val
    THEN illegal(p2, "Record components cannot be varargs")
    ELSE Then(Call(p2, "parse_identifier"), LAMBDA p3, component_name :
         Bind(Append(components,
                     [k |-> "FormalParameter", modifiers |-> m.modifiers,
                      annotations |-> m.annotations, type |-> component_type,
                      name |-> component_name, varargs |-> FALSE,
                      position |-> look(p1, 0).position]), LAMBDA cs :
         Then(try_accept(p3, <<Val(",")>>), LAMBDA p4, more :
         IF more THEN RecordComponentsLoop(p4, cs)
         ELSE Then(accept(p4, <<Val(")")>>), LAMBDA p5, x : Return(p5, cs)))))))

parse_record_components(p) ==
    Then(accept(p, <<Val("(")>>), LAMBDA p1, x :
    Then(try_accept(p1, <<Val(")")>>), LAMBDA p2, empty :
    IF empty THEN Return(p2, <<>>) ELSE RecordComponentsLoop(p2, <<>>)))

parse_record_declaration(p) ==
    Then(accept(p, <<Val("record")>>), LAMBDA p1, x :
    Then(Call(p1, "parse_identifier"), LAMBDA p2, name :
    Then(IF would_accept(p2, <<Val("<")>>).val THEN Call(p2, "parse_type_parameters")
         ELSE Return(p2, None), LAMBDA p3, type_params :
    Then(Call(p3, "parse_record_components"), LAMBDA p4, components :
    Then(try_accept(p4, <<Val("implements")>>), LAMBDA p5, impl :
    IF impl THEN Call(p5, "parse_type_list")
    ELSE Then(IF would_accept(p5, <<Val("{")>>).val THEN Call(p5, "parse_class_body")
              ELSE Return(p5, <<>>), LAMBDA p6, body :
         Return(p6, [k |-> "RecordDeclaration", name |-> name,
                     type_parameters |-> type_params, components |-> components,
                     implements |-> None, body |-> body])))))))

TypeDeclaration(p) ==
    IF look(p, 0).value = "class" THEN Call(p, "parse_normal_class_declaration")
    ELSE IF look(p, 0).value \in {"enum", "interface"} THEN NotModelled(p)
    ELSE IF is_annotation_declaration(p, 0) THEN NotModelled(p)
    ELSE IF look(p, 0).value = "record" THEN Call(p, "parse_record_declaration")
    ELSE illegal(p, "Expected type declaration")

parse_class_or_interface_declaration(p) ==
    Then(Call(p, "parse_modifiers"), LAMBDA p1, m :
    Then(TypeDeclaration(p1), LAMBDA p2, type_declaration :
    Return(p2, SetAttrs(type_declaration,
                   [position |-> look(p1, 0).position, modifiers |-> m.modifiers,
                    annotations |-> m.annotations, documentation |-> m.javadoc]))))

parse_type_declaration(p) ==
    Then(try_accept(p, <<Val(";")>>), LAMBDA p1, semicolon :
    IF semicolon THEN Return(p1, None)
    ELSE Call(p1, "parse_class_or_interface_declaration"))

\* the methods of the top level are cut off: no input has one
parse_top_level_method_declaration(p, modifiers, annotations, javadoc) ==
    Then(try_accept(p, <<Val("void")>>), LAMBDA p1, void :
    IF void THEN Then(Call(p1, "parse_identifier"), LAMBDA p2, method_name : NotModelled(p2))
    ELSE IF look(p, 0).value = "<" THEN NotModelled(p1)
    ELSE IF IsInstance(look(p, 0), "Identifier") \/ IsInstance(look(p, 0), "BasicType")
    THEN NotModelled(p1)
    ELSE illegal(p1, "Expected method declaration"))

RECURSIVE ImportLoop(_, _, _)
ImportLoop(p, static, qualified_identifier) ==
    Then(Call(p, "parse_identifier"), LAMBDA p1, identifier :
    Then(try_accept(p1, <<Val(".")>>), LAMBDA p2, dot :
    IF dot
    THEN Then(try_accept(p2, <<Val("*")>>), LAMBDA p3, star :
         IF star
         THEN Then(accept(p3, <<Val(";")>>), LAMBDA p4, x :
              Return(p4, [k |-> "Import", path |-> Append(qualified_identifier, identifier),
                          static |-> static, wildcard |-> TRUE]))
         ELSE ImportLoop(p3, static, Append(qualified_identifier, identifier)))
    ELSE Then(accept(p2, <<Val(";")>>), LAMBDA p4, x :
         Return(p4, [k |-> "Import", path |-> Append(qualified_identifier, identifier),
                     static |-> static, wildcard |-> FALSE]))))

\* path is the list of the identifiers that '.'.join puts together
parse_import_declaration(p) ==
    Then(accept(p, <<Val("import")>>), LAMBDA p1, x :
    Then(try_accept(p1, <<Val("static")>>), LAMBDA p2, static :
    ImportLoop(p2, static, <<>>)))

(***************************************************************************)
(* Expressions.                                                            *)
(***************************************************************************)
\* Parser.parse_literal
parse_literal(p) ==
    Then(accept(p, <<Cls("Literal")>>), LAMBDA p1, literal :
    Return(p1, Literal(literal)))

parse_par_expression(p) ==
    Then(accept(p, <<Val("(")>>), LAMBDA p1, x :
    Then(Call(p1, "parse_expression"), LAMBDA p2, expression :
    Then(accept(p2, <<Val(")")>>), LAMBDA p3, y :
    Return(p3, expression))))

RECURSIVE ArgumentsLoop(_, _)
ArgumentsLoop(p, expressions) ==
    Then(Call(p, "parse_expression"), LAMBDA p1, expression :
    Then(try_accept(p1, <<Val(",")>>), LAMBDA p2, more :
    IF more THEN ArgumentsLoop(p2, Append(expressions, expression))
    ELSE Then(accept(p2, <<Val(")")>>), LAMBDA p3, x :
         Return(p3, Append(expressions, expression)))))

parse_arguments(p) ==
    Then(accept(p, <<Val("(")>>), LAMBDA p1, x :
    Then(try_accept(p1, <<Val(")")>>), LAMBDA p2, empty :
    IF empty THEN Return(p2, <<>>) ELSE ArgumentsLoop(p2, <<>>)))

\* the suffixes that start with '[' or with '.' are cut off
parse_identifier_suffix(p) ==
    IF would_accept(p, <<Val("["), Val("]")>>).val THEN NotModelled(p)
    ELSE IF would_accept(p, <<Val("(")>>).val
    THEN Then(Call(p, "parse_arguments"), LAMBDA p1, arguments :
         Return(p1, [k |-> "MethodInvocation", arguments |-> arguments]))
    ELSE IF look(p, 0).value = "." /\ look(p, 1).value \in {"class", "this", "<", "new"}
    THEN NotModelled(p)
    ELSE IF would_accept(p, <<Val("."), Val("super"), Val("(")>>).val THEN NotModelled(p)
    ELSE Return(p, [k |-> "MemberReference"])

RECURSIVE QualifiedPrimaryLoop(_, _)
QualifiedPrimaryLoop(p, qualified_identifier) ==
    IF would_accept(p, <<Val("."), Cls("Identifier")>>).val
    THEN Then(accept(p, <<Val(".")>>), LAMBDA p1, x :
         Then(Call(p1, "parse_identifier"), LAMBDA p2, identifier :
         QualifiedPrimaryLoop(p2, Append(qualified_identifier, identifier))))
    ELSE Return(p, qualified_identifier)

\* the branch `isinstance(token, Identifier)` of parse_primary; the suffix is
\* a MemberReference or a MethodInvocation, and qualifier is the list of the
\* identifiers that '.'.join puts together
IdentifierPrimary(p) ==
    Then(Call(p, "parse_identifier"), LAMBDA p1, first :
    Then(QualifiedPrimaryLoop(p1, <<first>>), LAMBDA p2, qualified_identifier :
    Then(Call(p2, "parse_identifier_suffix"), LAMBDA p3, identifier_suffix :
    Return(p3, SetAttrs(identifier_suffix,
                   [member |-> qualified_identifier[Len(qualified_identifier)],
                    position |-> look(p, 0).position,
                    qualifier |-> SubSeq(qualified_identifier, 1,
                                         Len(qualified_identifier) - 1)])))))

parse_primary(p) ==
    IF IsInstance(look(p, 0), "Literal")
    THEN Then(Call(p, "parse_literal"), LAMBDA p1, literal :
         Return(p1, SetAttrs(literal, [position |-> look(p, 0).position])))
    ELSE IF look(p, 0).value = "(" THEN Call(p, "parse_par_expression")
    ELSE IF look(p, 0).value \in {"this", "super", "new", "<"} THEN NotModelled(p)
    ELSE IF IsInstance(look(p, 0), "Identifier") THEN IdentifierPrimary(p)
    ELSE IF IsInstance(look(p, 0), "BasicType")
    THEN Then(Call(p, "parse_basic_type"), LAMBDA p1, base_type :
         Then(Call(p1, "parse_array_dimension"), LAMBDA p2, dimensions :
         Then(accept(p2, <<Val("."), Val("class")>>), LAMBDA p3, x :
         Return(p3, [k |-> "ClassReference",
                     type |-> [base_type EXCEPT !.dimensions = dimensions]]))))
    ELSE IF look(p, 0).value = "void"
    THEN Then(accept(p, <<Val("void"), Val("."), Val("class")>>), LAMBDA p1, x :
         Return(p1, [k |-> "VoidClassReference"]))
    ELSE IF look(p, 0).value = "switch" THEN Call(p, "parse_switch_expression")
    ELSE illegal(p, "Expected expression")

RECURSIVE PrefixOperators(_, _)
PrefixOperators(p, prefix_operators) ==
    IF look(p, 0).value \in PrefixValues
    THEN Then(next(p), LAMBDA p1, token :
         PrefixOperators(p1, Append(prefix_operators, token.value)))
    ELSE Return(p, prefix_operators)

RECURSIVE PostfixOperators(_, _)
PostfixOperators(p, postfix_operators) ==
    IF look(p, 0).value \in PostfixValues
    THEN Then(next(p), LAMBDA p1, token :
         PostfixOperators(p1, Append(postfix_operators, token.value)))
    ELSE Return(p, postfix_operators)

\* the loop of parse_formal_parameters, from `while True`
RECURSIVE FormalParametersLoop(_, _)
FormalParametersLoop(p, formal_parameters) ==
    Then(Call(p, "parse_variable_modifiers"), LAMBDA p1, m :
    Then(Call(p1, "parse_type"), LAMBDA p2, parameter_type :
    Then(try_accept(p2, <<Val("...")>>), LAMBDA p3, varargs :
    Then(Call(p3, "parse_identifier"), LAMBDA p4, parameter_name :
    Then(Call(p4, "parse_array_dimension"), LAMBDA p5, dimensions :
    Bind(Append(formal_parameters,
                [k |-> "FormalParameter", modifiers |-> m.modifiers,
                 annotations |-> m.annotations,
                 type |-> [parameter_type EXCEPT !.dimensions = @ + dimensions],
                 name |-> parameter_name, varargs |-> varargs,
                 position |-> look(p1, 0).position]), LAMBDA parameters :
    IF varargs THEN Return(p5, parameters)
    ELSE Then(try_accept(p5, <<Val(",")>>), LAMBDA p6, more :
         IF more THEN FormalParametersLoop(p6, parameters)
         ELSE Return(p6, parameters))))))))

parse_formal_parameters(p) ==
    Then(accept(p, <<Val("(")>>), LAMBDA p1, x :
    Then(try_accept(p1, <<Val(")")>>), LAMBDA p2, empty :
    IF empty THEN Return(p2, <<>>)
    ELSE Then(FormalParametersLoop(p2, <<>>), LAMBDA p3, formal_parameters :
         Then(accept(p3, <<Val(")")>>), LAMBDA p4, y :
         Return(p4, formal_parameters)))))

\* the loop `while not self.would_accept(')')` of parse_lambda_expression
RECURSIVE InferredParametersLoop(_, _)
InferredParametersLoop(p, parameters) ==
    IF would_accept(p, <<Val(")")>>).val THEN Return(p, parameters)
    ELSE Then(Call(p, "parse_identifier"), LAMBDA p1, name :
         Then(try_accept(p1, <<Val(",")>>), LAMBDA p2, x :
         InferredParametersLoop(p2, Append(parameters,
                                           [k |-> "InferredFormalParameter",
                                            name |-> name]))))

parse_lambda_expression(p) ==
    Then(IF would_accept(p, <<Val("("), Cls("Identifier"), Val(",")>>).val
         THEN Then(accept(p, <<Val("(")>>), LAMBDA p1, x :
              Then(InferredParametersLoop(p1, <<>>), LAMBDA p2, parameters :
              Then(accept(p2, <<Val(")")>>), LAMBDA p3, y :
              Return(p3, parameters))))
         ELSE Call(p, "parse_formal_parameters"), LAMBDA p4, parameters :
    Then(Call(p4, "parse_lambda_method_body"), LAMBDA p5, body :
    Return(p5, [k |-> "LambdaExpression", parameters |-> parameters,
                body |-> body])))

\* a mutant of LambdaAttempt: the attempt is made outside the scope
LambdaAttemptUnscoped(p) == Call(p, "parse_lambda_expression")

\* parse_expression_3, the first `with self.tokens:`; a lambda expression is
\* a node, which is true
LambdaAttempt(p) ==
    WithTokens(p, LAMBDA q : Call(q, "parse_lambda_expression"))

\* the body of the second `with self.tokens:` of parse_expression_3
CastBody(q) ==
    Then(accept(q, <<Val("(")>>), LAMBDA q1, x :
    Then(Call(q1, "parse_type"), LAMBDA q2, cast_target :
    Then(accept(q2, <<Val(")")>>), LAMBDA q3, y :
    Then(Call(q3, "parse_expression_3"), LAMBDA q4, expression :
    Return(q4, [k |-> "Cast", type |-> cast_target,
                expression |-> expression])))))

\* a mutant of CastAttempt: the attempt is made outside the scope
CastAttemptUnscoped(p) == CastBody(p)

\* parse_expression_3, the second `with self.tokens:`
CastAttempt(p) == WithTokens(p, LAMBDA q : CastBody(q))

\* the attribute name of the node, or list() when the node has none: a
\* primary in parentheses is a node that parse_expression_3 has returned
AttrOrList(node, name) == IF name \in DOMAIN node THEN node[name] ELSE <<>>

\* parse_expression_3 from `primary = self.parse_primary()`; the selectors,
\* which a '.' or a '[' starts, are cut off
PrimaryRest(p, prefix_operators) ==
    Then(Call(p, "parse_primary"), LAMBDA p2, primary :
    IF look(p2, 0).value \in {".", "["} THEN NotModelled(p2)
    ELSE Then(PostfixOperators(p2, AttrOrList(primary, "postfix_operators")),
              LAMBDA p3, postfix_operators :
         Return(p3, SetAttrs(primary,
                        [prefix_operators |-> prefix_operators,
                         selectors |-> AttrOrList(primary, "selectors"),
                         postfix_operators |-> postfix_operators]))))

\* `except JavaSyntaxError: pass` after the attempt r: Next(the object) is
\* what follows
OrElse(r, Next(_)) ==
    IF r.exc = "JavaSyntaxError" THEN Next(r.p) ELSE r

parse_expression_3(p) ==
    Then(PrefixOperators(p, <<>>), LAMBDA p1, prefix_operators :
    IF would_accept(p1, <<Val("(")>>).val
    THEN OrElse(LambdaAttempt(p1), LAMBDA p2 :
         OrElse(CastAttempt(p2), LAMBDA p3 :
         PrimaryRest(p3, prefix_operators)))
    ELSE PrimaryRest(p1, prefix_operators))

parse_infix_operator(p) ==
    Then(accept(p, <<Cls("Operator")>>), LAMBDA p1, operator :
    IF operator \notin InfixValues THEN illegal(p1, "Expected infix operator")
    ELSE IF operator # ">" THEN Return(p1, operator)
    ELSE Then(try_accept(p1, <<Val(">")>>), LAMBDA p2, second :
         IF ~second THEN Return(p2, ">")
         ELSE Then(try_accept(p2, <<Val(">")>>), LAMBDA p3, third :
              Return(p3, IF third THEN ">>>" ELSE ">>"))))

\* Parser.parse_record_pattern_components: no input has a record pattern
parse_record_pattern_components(p) == NotModelled(p)

\* the pattern `Type identifier` of a case label or of instanceof
FormalParameterPattern(type, name, position) ==
    [k |-> "FormalParameter", type |-> type, name |-> name, modifiers |-> {},
     annotations |-> <<>>, varargs |-> FALSE, position |-> position]

\* the body of `try:` in the branch instanceof; the marker is pushed
InstanceofTry(p) ==
    Then(Call(p, "parse_type"), LAMBDA p1, instanceof_type :
    IF would_accept(p1, <<Val("(")>>).val THEN Call(p1, "parse_record_pattern_components")
    ELSE IF /\ IsInstance(look(p1, 0), "Identifier")
            /\ look(p1, 1).value \notin {".", "(", "["}
    THEN Then(Call(p1, "parse_identifier"), LAMBDA p2, pattern_name :
         Then(pop_marker(p2, TRUE), LAMBDA p3, x :
         Return(p3, <<InstanceofPart("instanceof_pattern",
                          FormalParameterPattern(instanceof_type, pattern_name,
                                                 NoPosition)),
                      None>>)))
    ELSE Then(pop_marker(p1, FALSE), LAMBDA p2, x :
         Return(p2, <<InstanceofPart("instanceof_type", instanceof_type), None>>)))

\* the branch `try_accept('instanceof')`: the parts it extends the list by
InstanceofParts(p) ==
    Except(InstanceofTry(push_marker(p)), "JavaSyntaxError", LAMBDA q :
        Then(pop_marker(q, FALSE), LAMBDA q1, x :
        illegal(q1, "Type expected after 'instanceof'")))

RECURSIVE Expression2RestLoop(_, _)
Expression2RestLoop(p, ps) ==
    IF ~(look(p, 0).value \in InfixValues \/ look(p, 0).value = "instanceof")
    THEN Return(p, ps)
    ELSE Then(try_accept(p, <<Val("instanceof")>>), LAMBDA p1, instanceof :
         IF instanceof
         THEN Then(InstanceofParts(p1), LAMBDA p2, extension :
              Expression2RestLoop(p2, ps \o extension))
         ELSE Then(Call(p1, "parse_infix_operator"), LAMBDA p2, operator :
              Then(Call(p2, "parse_expression_3"), LAMBDA p3, expression :
              Expression2RestLoop(p3, ps \o <<Op(operator), expression>>))))

parse_expression_2_rest(p) == Expression2RestLoop(p, <<>>)

parse_expression_2(p) ==
    Then(Call(p, "parse_expression_3"), LAMBDA p1, expression_3 :
    IF look(p1, 0).value \in InfixValues \/ look(p1, 0).value = "instanceof"
    THEN Then(Call(p1, "parse_expression_2_rest"), LAMBDA p2, rest :
         Bind(build_binary_operation(<<expression_3>> \o rest, 0), LAMBDA b :
         IF b.exc = "none" THEN Return(p2, b.val) ELSE Raise(p2, b.exc)))
    ELSE Return(p1, expression_3))

\* `if self.accept('->')`: the value of accept is '->', which is true
parse_lambda_method_body(p) ==
    Then(accept(p, <<Val("->")>>), LAMBDA p1, x :
    IF would_accept(p1, <<Val("{")>>).val THEN Call(p1, "parse_block")
    ELSE Call(p1, "parse_expression"))

\* Parser.parse_method_reference: no input has '::'
parse_method_reference(p) == NotModelled(p)

parse_expressionl(p) ==
    Then(Call(p, "parse_expression_2"), LAMBDA p1, expression_2 :
    Then(try_accept(p1, <<Val("?")>>), LAMBDA p2, ternary :
    IF ternary
    THEN Then(Call(p2, "parse_expression"), LAMBDA p3, true_expression :
         Then(accept(p3, <<Val(":")>>), LAMBDA p4, x :
         Then(Call(p4, "parse_expressionl"), LAMBDA p5, false_expression :
         Return(p5, [k |-> "TernaryExpression", condition |-> expression_2,
                     if_true |-> true_expression,
                     if_false |-> false_expression]))))
    ELSE IF would_accept(p2, <<Val("->")>>).val
    THEN Then(Call(p2, "parse_lambda_method_body"), LAMBDA p3, body :
         Return(p3, [k |-> "LambdaExpression", parameters |-> <<expression_2>>,
                     body |-> body]))
    ELSE Then(try_accept(p2, <<Val("::")>>), LAMBDA p3, reference :
         IF reference THEN Call(p3, "parse_method_reference")
         ELSE Return(p3, expression_2))))

parse_expression(p) ==
    Then(Call(p, "parse_expressionl"), LAMBDA p1, expressionl :
    IF look(p1, 0).value \in AssignmentValues
    THEN Then(next(p1), LAMBDA p2, token :
         Then(Call(p2, "parse_expression"), LAMBDA p3, assignment_expression :
         Return(p3, [k |-> "Assignment", expressionl |-> expressionl,
                     type |-> token.value, value |-> assignment_expression])))
    ELSE Return(p1, expressionl))

(***************************************************************************)
(* Switch expressions.                                                     *)
(***************************************************************************)
\* the body of `try:` in parse_case_label; the marker is pushed.  The value
\* None stands for leaving the `try` without a return.
CaseLabelTry(p) ==
    Then(Call(p, "parse_type"), LAMBDA p1, potential_record_type :
    IF would_accept(p1, <<Val("(")>>).val THEN Call(p1, "parse_record_pattern_components")
    ELSE IF /\ IsInstance(look(p1, 0), "Identifier")
            /\ look(p1, 1).value \notin {".", "(", "["}
    THEN Then(Call(p1, "parse_identifier"), LAMBDA p2, pattern_variable_name :
         Then(pop_marker(p2, TRUE), LAMBDA p3, x :
         Return(p3, FormalParameterPattern(potential_record_type,
                                           pattern_variable_name,
                                           look(p, 0).position))))
    ELSE Then(pop_marker(p1, FALSE), LAMBDA p2, x : Return(p2, None)))

parse_case_label(p) ==
    IF would_accept(p, <<Val("null")>>).val /\ ~IsInstance(look(p, 1), "Identifier")
    THEN Then(accept(p, <<Val("null")>>), LAMBDA p1, x :
         Return(p1, SetAttrs(Literal("null"), [position |-> look(p, 0).position])))
    ELSE Then(Except(CaseLabelTry(push_marker(p)), "JavaSyntaxError", LAMBDA q :
                  pop_marker(q, FALSE)), LAMBDA p1, pattern :
         IF pattern.k # "None" THEN Return(p1, pattern)
         ELSE Call(p1, "parse_expression"))

RECURSIVE CaseLabels(_, _)
CaseLabels(p, labels) ==
    Then(Call(p, "parse_case_label"), LAMBDA p1, label :
    Then(try_accept(p1, <<Val(",")>>), LAMBDA p2, more :
    IF more THEN CaseLabels(p2, Append(labels, label))
    ELSE Return(p2, Append(labels, label))))

\* parse_switch_rule to `self.accept('->')`: the value is (labels, guard)
SwitchRuleHead(p) ==
    Then(try_accept(p, <<Val("default")>>), LAMBDA p1, default :
    Then(IF default
         THEN Return(p1, <<SetAttrs(Literal("'default'"),
                                    [position |-> look(p, 0).position])>>)
         ELSE Then(try_accept(p1, <<Val("case")>>), LAMBDA p2, case :
              IF case THEN CaseLabels(p2, <<>>)
              ELSE illegal(p2, "Expected 'case' or 'default' in switch rule")),
         LAMBDA p3, labels :
    Then(try_accept(p3, <<Val("when")>>), LAMBDA p4, when :
    Then(IF when THEN Call(p4, "parse_expression") ELSE Return(p4, None),
         LAMBDA p5, guard :
    Then(accept(p5, <<Val("->")>>), LAMBDA p6, x :
    Return(p6, [labels |-> labels, guard |-> guard]))))))

\* self.parsing_switch_expression_block = v
SetFlag(p, v) == [p EXCEPT !.parsing_switch_expression_block = v]

\* try: r   finally: self.parsing_switch_expression_block = False
FinallyClearFlag(r) == [r EXCEPT !.p = SetFlag(@, FALSE)]

\* parse_switch_rule from `action = None`
SwitchRuleAction(p) ==
    IF would_accept(p, <<Val("{")>>).val
    THEN FinallyClearFlag(Call(SetFlag(p, TRUE), "parse_block"))
    ELSE Call(p, "parse_expression")

SwitchRule(labels, guard, action) ==
    [k |-> "SwitchRule", labels |-> labels, guard |-> guard, action |-> action]

\* Parser.parse_switch_rule, the definition that is in force
parse_switch_rule(p) ==
    Then(SwitchRuleHead(p), LAMBDA p1, head :
    Then(SwitchRuleAction(p1), LAMBDA p2, action :
    Return(p2, SwitchRule(head.labels, head.guard, action))))

RECURSIVE SwitchRulesLoop(_, _)
SwitchRulesLoop(p, cases) ==
    IF would_accept(p, <<Val("}")>>).val THEN Return(p, cases)
    ELSE Then(Call(p, "parse_switch_rule"), LAMBDA p1, rule :
         SwitchRulesLoop(p1, Append(cases, rule)))

parse_switch_expression(p) ==
    Then(accept(p, <<Val("switch")>>), LAMBDA p1, x :
    Then(Call(p1, "parse_par_expression"), LAMBDA p2, selector :
    Then(accept(p2, <<Val("{")>>), LAMBDA p3, y :
    Then(SwitchRulesLoop(p3, <<>>), LAMBDA p4, cases :
    Then(accept(p4, <<Val("}")>>), LAMBDA p5, z :
    Return(p5, [k |-> "SwitchExpression", selector |-> selector,
                cases |-> cases]))))))

(***************************************************************************)
(* Blocks and statements.                                                  *)
(***************************************************************************)
\* Parser.parse_array_initializer: no input has one
parse_array_initializer(p) == NotModelled(p)

parse_variable_initializer(p) ==
    IF would_accept(p, <<Val("{")>>).val THEN Call(p, "parse_array_initializer")
    ELSE Call(p, "parse_expression")

\* the value is (array_dimension, initializer)
parse_variable_declarator_rest(p) ==
    Then(Call(p, "parse_array_dimension"), LAMBDA p1, array_dimension :
    Then(try_accept(p1, <<Val("=")>>), LAMBDA p2, initialized :
    IF initialized
    THEN Then(Call(p2, "parse_variable_initializer"), LAMBDA p3, initializer :
         Return(p3, [array_dimension |-> array_dimension,
                     initializer |-> initializer]))
    ELSE Return(p2, [array_dimension |-> array_dimension, initializer |-> None])))

parse_variable_declarator(p) ==
    Then(Call(p, "parse_identifier"), LAMBDA p1, identifier :
    Then(Call(p1, "parse_variable_declarator_rest"), LAMBDA p2, rest :
    Return(p2, [k |-> "VariableDeclarator", name |-> identifier,
                dimensions |-> rest.array_dimension,
                initializer |-> rest.initializer])))

RECURSIVE VariableDeclaratorsLoop(_, _)
VariableDeclaratorsLoop(p, declarators) ==
    Then(Call(p, "parse_variable_declarator"), LAMBDA p1, declarator :
    Then(try_accept(p1, <<Val(",")>>), LAMBDA p2, more :
    IF more THEN VariableDeclaratorsLoop(p2, Append(declarators, declarator))
    ELSE Return(p2, Append(declarators, declarator))))

parse_variable_declarators(p) == VariableDeclaratorsLoop(p, <<>>)

parse_local_variable_declaration_statement(p) ==
    Then(Call(p, "parse_variable_modifiers"), LAMBDA p1, m :
    Then(IF look(p1, 0).value = "var"
         THEN Then(next(p1), LAMBDA p2, var_token :
              Return(p2, [k |-> "ReferenceType", name |-> "var", arguments |-> <<>>,
                          sub_type |-> None, dimensions |-> 0]))
         ELSE Call(p1, "parse_type"), LAMBDA p3, java_type :
    Then(Call(p3, "parse_variable_declarators"), LAMBDA p4, declarators :
    Then(accept(p4, <<Val(";")>>), LAMBDA p5, x :
    Return(p5, [k |-> "LocalVariableDeclaration", modifiers |-> m.modifiers,
                annotations |-> m.annotations, type |-> java_type,
                declarators |-> declarators, position |-> NoPosition])))))

(***************************************************************************)
(* Switch statements.                                                      *)
(***************************************************************************)
\* any(isinstance(cl, tree.Literal) and cl.value == "'default'" ...)
HasDefaultLabel(case_labels) ==
    \E n \in 1..Len(case_labels) :
        case_labels[n].k = "Literal" /\ case_labels[n].value = "'default'"

\* the outer loop of parse_switch_block_statement_group, from its test: the
\* value is (case_labels, guard)
RECURSIVE SwitchLabelsLoop(_, _, _)
SwitchLabelsLoop(p, case_labels, guard) ==
    IF look(p, 0).value \notin {"case", "default"}
    THEN Return(p, [labels |-> case_labels, guard |-> guard])
    ELSE
    Then(try_accept(p, <<Val("default")>>), LAMBDA p1, default :
    Then(IF default
         THEN (IF HasDefaultLabel(case_labels)
               THEN illegal(p1, "Multiple default labels or default with other case labels.")
               ELSE Return(p1, Append(case_labels,
                                      SetAttrs(Literal("'default'"),
                                               [position |-> look(p, 0).position]))))
         ELSE Then(try_accept(p1, <<Val("case")>>), LAMBDA p2, case :
              IF case THEN CaseLabels(p2, case_labels)
              ELSE illegal(p2, "Expected 'case' or 'default'")),
         LAMBDA p3, labels :
    Then(IF look(p3, 0).value = "when"
         THEN (IF guard # None
               THEN illegal(p3, "Multiple 'when' clauses for a single switch label group.")
               ELSE Then(accept(p3, <<Val("when")>>), LAMBDA p4, x :
                    Call(p4, "parse_expression")))
         ELSE Return(p3, guard), LAMBDA p5, new_guard :
    Then(accept(p5, <<Val(":")>>), LAMBDA p6, y :
    IF look(p6, 0).value \notin {"case", "default"}
    THEN Return(p6, [labels |-> labels, guard |-> new_guard])
    ELSE SwitchLabelsLoop(p6, labels, new_guard)))))

\* the loop `while self.tokens.look().value not in ('case', 'default', '}')`
RECURSIVE SwitchGroupStatements(_, _)
SwitchGroupStatements(p, statements) ==
    IF look(p, 0).value \in {"case", "default", "}"} THEN Return(p, statements)
    ELSE Then(Call(p, "parse_block_statement"), LAMBDA p1, statement :
         SwitchGroupStatements(p1, Append(statements, statement)))

parse_switch_block_statement_group(p) ==
    Then(SwitchLabelsLoop(p, <<>>, None), LAMBDA p1, head :
    Then(SwitchGroupStatements(p1, <<>>), LAMBDA p2, statements :
    Return(p2, [k |-> "SwitchStatementCase", case |-> head.labels,
                guard |-> head.guard, statements |-> statements])))

RECURSIVE SwitchGroupsLoop(_, _)
SwitchGroupsLoop(p, statement_groups) ==
    IF look(p, 0).value \notin {"case", "default"} THEN Return(p, statement_groups)
    ELSE Then(Call(p, "parse_switch_block_statement_group"), LAMBDA p1, statement_group :
         SwitchGroupsLoop(p1, Append(statement_groups, statement_group)))

parse_switch_block_statement_groups(p) == SwitchGroupsLoop(p, <<>>)

\* the statements that the keywords `for` and `try` start are cut off; p has
\* consumed the keyword, position is that of the keyword
KeywordStatement(p, keyword, position) ==
    CASE keyword = "if" ->
           Then(Call(p, "parse_par_expression"), LAMBDA p1, condition :
           Then(Call(p1, "parse_statement"), LAMBDA p2, then :
           Then(try_accept(p2, <<Val("else")>>), LAMBDA p3, else :
           Then(IF else THEN Call(p3, "parse_statement") ELSE Return(p3, None),
                LAMBDA p4, else_statement :
           Return(p4, [k |-> "IfStatement", condition |-> condition,
                       then_statement |-> then, else_statement |-> else_statement,
                       position |-> position])))))
      [] keyword = "assert" ->
           Then(Call(p, "parse_expression"), LAMBDA p1, condition :
           Then(try_accept(p1, <<Val(":")>>), LAMBDA p2, colon :
           Then(IF colon THEN Call(p2, "parse_expression") ELSE Return(p2, None),
                LAMBDA p3, value :
           Then(accept(p3, <<Val(";")>>), LAMBDA p4, x :
           Return(p4, [k |-> "AssertStatement", condition |-> condition,
                       value |-> value, position |-> position])))))
      [] keyword = "switch" ->
           Then(Call(p, "parse_par_expression"), LAMBDA p1, switch_expression :
           Then(accept(p1, <<Val("{")>>), LAMBDA p2, x :
           Then(Call(p2, "parse_switch_block_statement_groups"), LAMBDA p3, switch_block :
           Then(accept(p3, <<Val("}")>>), LAMBDA p4, y :
           Return(p4, [k |-> "SwitchStatement", expression |-> switch_expression,
                       cases |-> switch_block, position |-> position])))))
      [] keyword = "while" ->
           Then(Call(p, "parse_par_expression"), LAMBDA p1, condition :
           Then(Call(p1, "parse_statement"), LAMBDA p2, action :
           Return(p2, [k |-> "WhileStatement", condition |-> condition,
                       body |-> action, position |-> position])))
      [] keyword = "do" ->
           Then(Call(p, "parse_statement"), LAMBDA p1, action :
           Then(accept(p1, <<Val("while")>>), LAMBDA p2, x :
           Then(Call(p2, "parse_par_expression"), LAMBDA p3, condition :
           Then(accept(p3, <<Val(";")>>), LAMBDA p4, y :
           Return(p4, [k |-> "DoStatement", condition |-> condition,
                       body |-> action, position |-> position])))))
      [] keyword \in {"break", "continue"} ->
           Then(IF would_accept(p, <<Cls("Identifier")>>).val THEN Call(p, "parse_identifier")
                ELSE Return(p, NoValue), LAMBDA p1, label :
           Then(accept(p1, <<Val(";")>>), LAMBDA p2, x :
           Return(p2, [k |-> IF keyword = "break" THEN "BreakStatement"
                             ELSE "ContinueStatement",
                       goto |-> label, position |-> position])))
      [] keyword = "return" ->
           Then(IF would_accept(p, <<Val(";")>>).val THEN Return(p, None)
                ELSE Call(p, "parse_expression"), LAMBDA p1, value :
           Then(accept(p1, <<Val(";")>>), LAMBDA p2, x :
           Return(p2, [k |-> "ReturnStatement", expression |-> value,
                       position |-> position])))
      [] keyword = "throw" ->
           Then(Call(p, "parse_expression"), LAMBDA p1, value :
           Then(accept(p1, <<Val(";")>>), LAMBDA p2, x :
           Return(p2, [k |-> "ThrowStatement", expression |-> value,
                       position |-> position])))
      [] keyword = "synchronized" ->
           Then(Call(p, "parse_par_expression"), LAMBDA p1, lock :
           Then(Call(p1, "parse_block"), LAMBDA p2, block :
           Return(p2, [k |-> "SynchronizedStatement", lock |-> lock,
                       block |-> block, position |-> position])))
      [] OTHER -> NotModelled(p)

StatementKeywords ==
    {"if", "assert", "switch", "while", "do", "for", "break", "continue",
     "return", "throw", "synchronized", "try"}

\* the last branches of Parser.parse_statement.  The text has an `else` of
\* the expression statement, then `elif self.try_accept('yield') and
\* self.parsing_switch_expression_block`, then the same `else` once more.  The
\* chain is read as its comment says ("yield must be checked before
\* attempting to parse a general expression statement"): the test of `yield`
\* comes first and the expression statement is the default.  try_accept is the
\* left operand of `and`: it takes the token `yield` whatever the flag is, and
\* with the flag false the default branch goes on after that token.
YieldOrExpressionStatement(p, position) ==
    Then(try_accept(p, <<Val("yield")>>), LAMBDA p1, yield :
    IF yield /\ p1.parsing_switch_expression_block
    THEN Then(Call(p1, "parse_expression"), LAMBDA p2, value :
         Then(accept(p2, <<Val(";")>>), LAMBDA p3, x :
         Return(p3, [k |-> "YieldStatement", expression |-> value,
                     position |-> position])))
    ELSE Then(Call(p1, "parse_expression"), LAMBDA p2, expression :
         Then(accept(p2, <<Val(";")>>), LAMBDA p3, x :
         Return(p3, [k |-> "StatementExpression", expression |-> expression,
                     position |-> position]))))

\* Parser.parse_statement
parse_statement(p) ==
    IF would_accept(p, <<Val("{")>>).val
    THEN Then(Call(p, "parse_block"), LAMBDA p1, block :
         Return(p1, [k |-> "BlockStatement", statements |-> block,
                     position |-> look(p, 0).position]))
    ELSE IF would_accept(p, <<Val(";")>>).val
    THEN Then(try_accept(p, <<Val(";")>>), LAMBDA p1, x :
         Return(p1, [k |-> "Statement", position |-> look(p, 0).position]))
    ELSE IF would_accept(p, <<Cls("Identifier"), Val(":")>>).val
    THEN Then(Call(p, "parse_identifier"), LAMBDA p1, identifer :
         Then(accept(p1, <<Val(":")>>), LAMBDA p2, x :
         Then(Call(p2, "parse_statement"), LAMBDA p3, statement :
         Return(p3, SetAttrs(statement, [label |-> identifer,
                                         position |-> look(p, 0).position])))))
    ELSE IF look(p, 0).value \in StatementKeywords
    THEN Then(try_accept(p, <<Val(look(p, 0).value)>>), LAMBDA p1, x :
         KeywordStatement(p1, look(p, 0).value, look(p, 0).position))
    ELSE YieldOrExpressionStatement(p, look(p, 0).position)

\* `while self.tokens.look(i).value == '.': i += 2`: the value of i after it
RECURSIVE PastDots(_, _)
PastDots(p, i) == IF look(p, i).value = "." THEN PastDots(p, i + 2) ELSE i

\* one iteration of `while parens > 0`: look(i) is tested, then i += 1
ParensAfter(p, i, parens) ==
    IF look(p, i).value = "(" THEN parens + 1
    ELSE IF look(p, i).value = ")" THEN parens - 1
    ELSE parens

\* `while parens > 0`: the value of i after it.  Past the last token look(i)
\* is EndOfInput whatever i is, parens stays as it is and the loop has no
\* end: the value is then -1.
RECURSIVE PastParens(_, _, _)
PastParens(p, i, parens) ==
    IF parens <= 0 THEN i
    ELSE IF p.marker + i >= Len(p.tokens) THEN -1
    ELSE PastParens(p, i + 1, ParensAfter(p, i, parens))

\* the loop of parse_block_statement that looks past annotations and
\* modifiers, from look(i): the token it stops at, and why
RECURSIVE LookPastModifiers(_, _, _)
LookPastModifiers(p, i, found_annotations) ==
    IF IsInstance(look(p, i), "Modifier")
    THEN (IF look(p, i).value # "final"
          THEN [stop |-> "modifier", token |-> look(p, i),
                found_annotations |-> found_annotations]
          ELSE LookPastModifiers(p, i + 1, found_annotations))
    ELSE IF is_annotation(p, i)
    THEN (IF look(p, PastDots(p, i + 2)).value = "("
          THEN (IF PastParens(p, PastDots(p, i + 2) + 1, 1) < 0
                THEN [stop |-> "never", token |-> EndOfInputToken,
                      found_annotations |-> TRUE]
                ELSE LookPastModifiers(p, PastParens(p, PastDots(p, i + 2) + 1, 1), TRUE))
          ELSE LookPastModifiers(p, PastDots(p, i + 2) + 1, TRUE))
    ELSE [stop |-> "break", token |-> look(p, i),
          found_annotations |-> found_annotations]

\* the local variable declaration of parse_block_statement, with its position
PositionedDeclaration(p, token) ==
    Then(Call(p, "parse_local_variable_declaration_statement"), LAMBDA p1, statement :
    Return(p1, [statement EXCEPT !.position = token.position]))

\* a mutant of DeclarationOrStatement: the declaration is tried outside the
\* scope of the cursor
DeclarationOrStatementUnscoped(p, token) ==
    Except(PositionedDeclaration(p, token),
           "JavaSyntaxError", LAMBDA q : Call(q, "parse_statement"))

\* the end of parse_block_statement: the declaration is tried in the scope
\* of the cursor, and the statement is parsed when it raises JavaSyntaxError
DeclarationOrStatement(p, token) ==
    Except(WithTokens(p, LAMBDA q : PositionedDeclaration(q, token)),
           "JavaSyntaxError", LAMBDA q : Call(q, "parse_statement"))

\* the statements of parse_block_statement after its loop
AfterLookAhead(p, l) ==
    IF l.token.value \in {"class", "enum", "interface", "@"}
    THEN Call(p, "parse_class_or_interface_declaration")
    ELSE IF l.found_annotations \/ IsInstance(l.token, "BasicType")
    THEN PositionedDeclaration(p, l.token)
    ELSE IF ~IsInstance(l.token, "Identifier") THEN Call(p, "parse_statement")
    ELSE DeclarationOrStatement(p, l.token)

\* a call that has no end
Diverges(p) == Raise(p, "Diverges")

\* Parser.parse_block_statement
parse_block_statement(p) ==
    IF would_accept(p, <<Cls("Identifier"), Val(":")>>).val THEN Call(p, "parse_statement")
    ELSE IF would_accept(p, <<Val("synchronized")>>).val THEN Call(p, "parse_statement")
    ELSE Bind(LookPastModifiers(p, 0, FALSE), LAMBDA l :
         IF l.stop = "modifier" THEN Call(p, "parse_class_or_interface_declaration")
         ELSE IF l.stop = "never" THEN Diverges(p)
         ELSE AfterLookAhead(p, l))

RECURSIVE BlockLoop(_, _)
BlockLoop(p, statements) ==
    IF would_accept(p, <<Val("}")>>).val THEN Return(p, statements)
    ELSE Then(Call(p, "parse_block_statement"), LAMBDA p1, statement :
         BlockLoop(p1, Append(statements, statement)))

parse_block(p) ==
    Then(accept(p, <<Val("{")>>), LAMBDA p1, x :
    Then(BlockLoop(p1, <<>>), LAMBDA p2, statements :
    Then(accept(p2, <<Val("}")>>), LAMBDA p3, y :
    Return(p3, statements))))

(***************************************************************************)
(* Parser.parse_compilation_unit, in three parts: the statements before    *)
(* the loop over the declarations, one iteration of the loop, and the      *)
(* statements after it.                                                    *)
(***************************************************************************)
\* Parser.parse_annotations: no input has an annotation
parse_annotations(p) == NotModelled(p)

\* from `self.tokens.push_marker()` to the `else` of `try_accept('package')`:
\* the value is package
CompilationUnitPackage(p) ==
    IF is_annotation(push_marker(p), 0) THEN Call(push_marker(p), "parse_annotations")
    ELSE Then(try_accept(push_marker(p), <<Val("package")>>), LAMBDA p1, package :
         IF package
         THEN Then(pop_marker(p1, FALSE), LAMBDA p2, x :
              Then(Call(p2, "parse_qualified_identifier"), LAMBDA p3, package_name :
              Then(accept(p3, <<Val(";")>>), LAMBDA p4, y :
              Return(p4, [k |-> "PackageDeclaration", annotations |-> None,
                          name |-> package_name,
                          documentation |-> look(p, 0).javadoc,
                          position |-> look(p2, 0).position]))))
         ELSE Then(pop_marker(p1, TRUE), LAMBDA p2, x : Return(p2, None)))

\* while self.would_accept('import')
RECURSIVE CompilationUnitImports(_, _)
CompilationUnitImports(p, import_declarations) ==
    IF would_accept(p, <<Val("import")>>).val
    THEN Then(Call(p, "parse_import_declaration"), LAMBDA p1, import_declaration :
         CompilationUnitImports(p1,
             Append(import_declarations,
                    SetAttrs(import_declaration,
                             [position |-> look(p, 0).position]))))
    ELSE Return(p, import_declarations)

\* the statements before the loop: the value is the local variables
CompilationUnitHead(p) ==
    Then(CompilationUnitPackage(p), LAMBDA p1, package :
    Then(CompilationUnitImports(p1, <<>>), LAMBDA p2, import_declarations :
    Return(p2, [package |-> package, imports |-> import_declarations,
                declarations_list |-> <<>>])))

\* what an iteration hands to the loop: the list of the declarations, and
\* how the iteration ends ("next" at its last statement, else the jump)
LoopControl(declarations_list, jump) ==
    [declarations_list |-> declarations_list, jump |-> jump]

\* the branch of a type declaration in the `try`, after the two calls on the
\* markers: `declaration_node = self.parse_type_declaration()` and the test
\* `declaration_node is None and self.try_accept(';')`
DeclarationNodeOfType(p) ==
    Then(Call(p, "parse_type_declaration"), LAMBDA p1, declaration_node :
    IF declaration_node.k # "None" THEN Return(p1, [node |-> declaration_node,
                                                    semicolon |-> FALSE])
    ELSE Then(try_accept(p1, <<Val(";")>>), LAMBDA p2, semicolon :
         Return(p2, [node |-> declaration_node, semicolon |-> semicolon])))

\* `if declaration_node:` and its `else`, the end of the `try`
DeclarationNodeDone(p, declarations_list, declaration_node) ==
    IF Truthy(declaration_node)
    THEN Then(pop_marker(p, FALSE), LAMBDA p1, x :
         Return(p1, LoopControl(Append(declarations_list, declaration_node), "next")))
    ELSE Then(pop_marker(p, TRUE), LAMBDA p1, x :
         IF ~IsInstance(look(p1, 0), "EndOfInput")
         THEN illegal(p1, "Expected type or method declaration")
         ELSE Return(p1, LoopControl(declarations_list, "next")))

\* the body of `try:` in the loop; the marker of the attempt is pushed
DeclarationTry(p, declarations_list, current_javadoc) ==
    Then(Call(p, "parse_modifiers"), LAMBDA p1, m :
    IF \/ look(p1, 0).value \in {"class", "interface", "enum", "record"}
       \/ (IsInstance(look(p1, 0), "Annotation") /\ look(p1, 1).value = "interface")
    THEN Then(pop_marker(p1, TRUE), LAMBDA p2, x :
         Then(DeclarationNodeOfType(push_marker(p2)), LAMBDA p3, d :
         IF d.semicolon
         THEN Then(pop_marker(p3, FALSE), LAMBDA p4, y :
              Return(push_marker(p4), LoopControl(declarations_list, "continue")))
         ELSE DeclarationNodeDone(p3, declarations_list, d.node)))
    ELSE Then(parse_top_level_method_declaration(p1, m.modifiers, m.annotations,
                                                 current_javadoc),
              LAMBDA p2, declaration_node :
         DeclarationNodeDone(p2, declarations_list, declaration_node)))

\* except JavaSyntaxError as e; r is the outcome that raised e
DeclarationExcept(r, declarations_list) ==
    Then(pop_marker(r.p, TRUE), LAMBDA p1, x :
    IF IsInstance(look(p1, 0), "EndOfInput")
    THEN Return(p1, LoopControl(declarations_list, "break"))
    ELSE Then(try_accept(p1, <<Val(";")>>), LAMBDA p2, semicolon :
         IF ~semicolon THEN [r EXCEPT !.p = p2]
         ELSE Return(p2, LoopControl(declarations_list, "next"))))

\* the loop from `current_javadoc = ...` to its last statement, the push of
\* the marker of the next iteration
DeclarationAttempt(p, declarations_list) ==
    Bind(DeclarationTry(push_marker(p), declarations_list, look(p, 0).javadoc),
         LAMBDA r :
    Then(IF r.exc = "JavaSyntaxError" THEN DeclarationExcept(r, declarations_list)
         ELSE r, LAMBDA p1, control :
    IF control.jump = "next" THEN Return(push_marker(p1), control)
    ELSE Return(p1, control)))

\* one iteration of `while not isinstance(self.tokens.look(), EndOfInput)`.
\* The declaration that the first statement parses is assigned to
\* type_declaration, which nothing reads.
CompilationUnitIteration(p, declarations_list) ==
    Then(Except(Call(p, "parse_type_declaration"), "StopIteration", LAMBDA q :
             illegal(q, "Unexpected end of input")), LAMBDA p1, type_declaration :
    Then(try_accept(p1, <<Val(";")>>), LAMBDA p2, semicolon :
    IF semicolon
    THEN Then(pop_marker(p2, FALSE), LAMBDA p3, x :
         Return(push_marker(p3), LoopControl(declarations_list, "continue")))
    ELSE DeclarationAttempt(p2, declarations_list)))

\* the statements after the loop: the value is the CompilationUnit
CompilationUnitReturn(p, locals) ==
    Then(pop_marker(p, FALSE), LAMBDA p1, x :
    Return(p1, [k |-> "CompilationUnit", package |-> locals.package,
                imports |-> locals.imports,
                declarations |-> locals.declarations_list]))

\* the loop over the declarations, from its test, and the return
RECURSIVE CompilationUnitLoop(_, _)
CompilationUnitLoop(p, locals) ==
    IF IsInstance(look(p, 0), "EndOfInput") THEN CompilationUnitReturn(p, locals)
    ELSE Then(CompilationUnitIteration(p, locals.declarations_list), LAMBDA p1, control :
         Bind([locals EXCEPT !.declarations_list = control.declarations_list],
              LAMBDA after :
         IF control.jump = "break" THEN CompilationUnitReturn(p1, after)
         ELSE CompilationUnitLoop(p1, after)))

\* Parser.parse_compilation_unit
parse_compilation_unit(p) ==
    Then(CompilationUnitHead(p), LAMBDA p1, locals : CompilationUnitLoop(p1, locals))

(***************************************************************************)
(* The variables of the parser while another part is checked, and the      *)
(* outcome of a call that has not ended.                                   *)
(***************************************************************************)
Pending == [exc |-> "pending", val |-> None]

ParIdle ==
    /\ parser = NewParser(<<>>, FALSE)
    /\ frame = None
    /\ ppc = "idle"
    /\ returned = Pending

(***************************************************************************)
(* Call(p, method) is the call self.method() of a parse procedure.         *)
(***************************************************************************)
Call(p, method) ==
    CASE method = "parse_identifier" -> parse_identifier(p)
      [] method = "parse_qualified_identifier" -> parse_qualified_identifier(p)
      [] method = "parse_array_dimension" -> parse_array_dimension(p)
      [] method = "parse_basic_type" -> parse_basic_type(p)
      [] method = "parse_type_arguments" -> parse_type_arguments(p)
      [] method = "parse_reference_type" -> parse_reference_type(p)
      [] method = "parse_type_argument" -> parse_type_argument(p)
      [] method = "parse_type" -> parse_type(p)
      [] method = "parse_type_parameter" -> parse_type_parameter(p)
      [] method = "parse_type_parameters" -> parse_type_parameters(p)
      [] method = "parse_annotation" -> parse_annotation(p)
      [] method = "parse_annotation_element" -> parse_annotation_element(p)
      [] method = "parse_element_value_pairs" -> parse_element_value_pairs(p)
      [] method = "parse_element_value" -> parse_element_value(p)
      [] method = "parse_modifiers" -> parse_modifiers(p)
      [] method = "parse_variable_modifiers" -> parse_variable_modifiers(p)
      [] method = "parse_method_or_field_declaraction" -> parse_method_or_field_declaraction(p)
      [] method = "parse_member_declaration" -> parse_member_declaration(p)
      [] method = "parse_class_body_declaration" -> parse_class_body_declaration(p)
      [] method = "parse_class_body" -> parse_class_body(p)
      [] method = "parse_type_list" -> parse_type_list(p)
      [] method = "parse_normal_class_declaration" -> parse_normal_class_declaration(p)
      [] method = "parse_record_components" -> parse_record_components(p)
      [] method = "parse_record_declaration" -> parse_record_declaration(p)
      [] method = "parse_class_or_interface_declaration" -> parse_class_or_interface_declaration(p)
      [] method = "parse_type_declaration" -> parse_type_declaration(p)
      [] method = "parse_import_declaration" -> parse_import_declaration(p)
      [] method = "parse_literal" -> parse_literal(p)
      [] method = "parse_par_expression" -> parse_par_expression(p)
      [] method = "parse_arguments" -> parse_arguments(p)
      [] method = "parse_identifier_suffix" -> parse_identifier_suffix(p)
      [] method = "parse_primary" -> parse_primary(p)
      [] method = "parse_formal_parameters" -> parse_formal_parameters(p)
      [] method = "parse_lambda_expression" -> parse_lambda_expression(p)
      [] method = "parse_expression_3" -> parse_expression_3(p)
      [] method = "parse_infix_operator" -> parse_infix_operator(p)
      [] method = "parse_record_pattern_components" -> parse_record_pattern_components(p)
      [] method = "parse_expression_2_rest" -> parse_expression_2_rest(p)
      [] method = "parse_expression_2" -> parse_expression_2(p)
      [] method = "parse_lambda_method_body" -> parse_lambda_method_body(p)
      [] method = "parse_method_reference" -> parse_method_reference(p)
      [] method = "parse_expressionl" -> parse_expressionl(p)
      [] method = "parse_expression" -> parse_expression(p)
      [] method = "parse_case_label" -> parse_case_label(p)
      [] method = "parse_switch_rule" -> parse_switch_rule(p)
      [] method = "parse_switch_expression" -> parse_switch_expression(p)
      [] method = "parse_array_initializer" -> parse_array_initializer(p)
      [] method = "parse_variable_initializer" -> parse_variable_initializer(p)
      [] method = "parse_variable_declarator_rest" -> parse_variable_declarator_rest(p)
      [] method = "parse_variable_declarator" -> parse_variable_declarator(p)
      [] method = "parse_variable_declarators" -> parse_variable_declarators(p)
      [] method = "parse_local_variable_declaration_statement" -> parse_local_variable_declaration_statement(p)
      [] method = "parse_switch_block_statement_group" -> parse_switch_block_statement_group(p)
      [] method = "parse_switch_block_statement_groups" -> parse_switch_block_statement_groups(p)
      [] method = "parse_statement" -> parse_statement(p)
      [] method = "parse_block_statement" -> parse_block_statement(p)
      [] method = "parse_block" -> parse_block(p)
      [] method = "parse_annotations" -> parse_annotations(p)

(***************************************************************************)
(* The tokenizer as a state machine, over every text of MaxText characters *)
(* at most of LexChars, with ignore_errors off and on.                     *)
(***************************************************************************)
MaxText == 4

LexChars == {"0", "1", ".", "x", "u", "\"", "\\", "/", "*", "\n", "@"}

\* the texts of n characters at most
Texts(n) == UNION {[1..k -> LexChars] : k \in 0..n}

\* the variables of build_binary_operation while another part is checked
BinIdle ==
    /\ parts = <<>>
    /\ operation = None
    /\ bpc = "idle"

\* the variables of the tokenizer while another part is checked
LexIdle ==
    /\ tokenizer = NewTokenizer(<<>>, FALSE)
    /\ emitted = <<>>
    /\ tpc = "idle"

LexInit ==
    /\ \E code \in Texts(MaxText), ignore_errors \in BOOLEAN :
           tokenizer = NewTokenizer(code, ignore_errors)
    /\ emitted = <<>>
    /\ tpc = "pre"
    /\ BinIdle
    /\ ParIdle

\* tokenize(): reset and pre_tokenize
PreTokenize ==
    /\ tpc = "pre"
    /\ tokenizer' = pre_tokenize(tokenizer)
    /\ tpc' = IF tokenizer'.exc # "none" THEN "raised" ELSE "scan"
    /\ UNCHANGED <<emitted, binVars, parVars>>

\* the loop is at an iteration that takes the branch b
Scanning(b) ==
    /\ tpc = "scan"
    /\ tokenizer.i < tokenizer.length
    /\ Branch(tokenizer) = b

\* the iteration that takes the branch b, up to the place where it leaves
\* the generator: an exception, the next test of the while, or a yield
Iterate(b) ==
    /\ tokenizer' = UntilYield(tokenizer, b).t
    /\ emitted' = emitted \o UntilYield(tokenizer, b).out
    /\ tpc' = IF tokenizer'.exc # "none" THEN "raised"
              ELSE IF UntilYield(tokenizer, b).at \in Suspended
              THEN UntilYield(tokenizer, b).at
              ELSE "scan"
    /\ UNCHANGED <<binVars, parVars>>

\* the consumer asks for the next token: the generator goes on after the
\* yield it was suspended at, up to the next test of the while
Resume ==
    /\ tpc \in Suspended
    /\ tokenizer' = AfterYield(tokenizer, tpc)
    /\ tpc' = "scan"
    /\ UNCHANGED <<emitted, binVars, parVars>>

\* the branch `c.isspace()`
ConsumeWhitespace ==
    /\ Scanning("whitespace")
    /\ Iterate("whitespace")

\* the branch `startswith in ("//", "/*")`
ReadComment ==
    /\ Scanning("comment")
    /\ Iterate("comment")

\* the branch `c == '"' and three quotes`
ReadTextBlock ==
    /\ Scanning("text_block")
    /\ Iterate("text_block")

\* the branch `c == '@'`
ReadAnnotation ==
    /\ Scanning("annotation")
    /\ Iterate("annotation")

\* the branch `c in '0123456789', or '.' before a digit`
ReadNumber ==
    /\ Scanning("number")
    /\ Iterate("number")

\* the branch `c == '"' or c == "'"`
ReadString ==
    /\ Scanning("string")
    /\ Iterate("string")

\* the branch `is_java_identifier_start(c)`
ReadIdentifier ==
    /\ Scanning("identifier")
    /\ Iterate("identifier")

\* the branch `try_separator()`
ReadSeparator ==
    /\ Scanning("separator")
    /\ Iterate("separator")

\* the branch `try_operator()`
ReadOperator ==
    /\ Scanning("operator")
    /\ Iterate("operator")

\* the branch `else`
CouldNotProcess ==
    /\ Scanning("unknown")
    /\ Iterate("unknown")

\* the loop condition fails: the generator is exhausted
EndOfInput ==
    /\ tpc = "scan"
    /\ tokenizer.i >= tokenizer.length
    /\ tpc' = "done"
    /\ UNCHANGED <<tokenizer, emitted, binVars, parVars>>

LexNext ==
    \/ PreTokenize
    \/ ConsumeWhitespace
    \/ ReadComment
    \/ ReadTextBlock
    \/ ReadAnnotation
    \/ ReadNumber
    \/ ReadString
    \/ ReadIdentifier
    \/ ReadSeparator
    \/ ReadOperator
    \/ CouldNotProcess
    \/ Resume
    \/ EndOfInput

SpecLex == LexInit /\ [][LexNext]_vars

(***************************************************************************)
(* The tokenizer over chosen texts: text blocks, quoted literals, Unicode  *)
(* escapes and documentation comments, longer than the texts of SpecLex.   *)
(* A text is the sequence of its characters.                               *)
(***************************************************************************)
\* the texts of n characters at most over the characters of chars
TextsOver(chars, n) == UNION {[1..k -> chars] : k \in 0..n}

\* the concatenation of the sequences of ss
RECURSIVE Flatten(_)
Flatten(ss) == IF ss = <<>> THEN <<>> ELSE Head(ss) \o Flatten(Tail(ss))

ListsUpTo(S, n) == UNION {[1..m -> S] : m \in 0..n}

\* the source text of the text block whose raw content is content
TextBlock(content) == TripleQuote \o content \o TripleQuote

\* text blocks of indented lines: every content of MaxIndentText characters
\* at most over a space, a letter and the line terminator
MaxIndentText == 6

IndentChars == {" ", "a", "\n"}

IndentBlocks == {TextBlock(c) : c \in TextsOver(IndentChars, MaxIndentText)}

\* text blocks with escapes: every content of MaxEscapeText characters at
\* most over a space, two letters, the line terminator and the backslash
MaxEscapeText == 5

EscapeChars == {" ", "a", "s", "\n", "\\"}

EscapeBlocks == {TextBlock(c) : c \in TextsOver(EscapeChars, MaxEscapeText)}

\* text blocks with an escaped triple quote in the content, between two
\* texts of MaxAffix characters at most
MaxAffix == 1

Affixes == TextsOver({"a", "\n"}, MaxAffix)

QuoteBlocks ==
    {TextBlock(x \o <<"\\">> \o TripleQuote \o y) : x \in Affixes, y \in Affixes}

\* texts with one Unicode escape: a text, MaxBackslashes backslashes at
\* most, MaxMarkers letters u at most, four hex digits, a text
MaxBackslashes == 3

MaxMarkers == 2

Repeat(c, n) == [k \in 1..n |-> c]

HexCodes == {<<"0", "0", "6", "1">>, <<"0", "0", "6", "9">>, <<"0", "0", "5", "c">>}

UnicodeTexts ==
    {prefix \o Repeat("\\", k) \o Repeat("u", m) \o code \o suffix :
        prefix \in {<<>>, <<"a">>}, k \in 1..MaxBackslashes, m \in 1..MaxMarkers,
        code \in HexCodes, suffix \in {<<>>, <<"f">>}}

\* quoted literals: a quote, then MaxStringText characters at most over the
\* two quotes, the backslash, a letter and a digit
MaxStringText == 4

StringChars == {"\"", "'", "\\", "n", "1"}

StringTexts ==
    {<<delim>> \o body : delim \in {"\"", "'"},
                         body \in TextsOver(StringChars, MaxStringText)}

\* comments and tokens: MaxPieces pieces at most, each a documentation
\* comment, another comment, a token followed by a space, a separator, a
\* text block or a character that starts no token
MaxPieces == 3

DocComments == {<<"/", "*", "*", "x", "*", "/">>, <<"/", "*", "*", "y", "*", "/">>}

PlainComments ==
    {<<"/", "*", "*", "/">>, <<"/", "*", "x", "*", "/">>, <<"/", "/", "x", "\n">>}

TokenPieces ==
    {<<"a", " ">>, <<"1", " ">>, <<"+", " ">>, <<";">>, TextBlock(<<"\n">>)}

UnknownPieces == {<<"#", " ">>}

Pieces == DocComments \cup PlainComments \cup TokenPieces \cup UnknownPieces

CommentedTexts == {Flatten(ps) : ps \in ListsUpTo(Pieces, MaxPieces)}

\* texts with the character that starts an annotation
AnnotationTexts ==
    {<<"@">>, <<"x", " ", "@", "A">>, <<"/", "*", "*", "x", "*", "/", "@", "A", " ", "a">>}

ScanTexts ==
    IndentBlocks \cup EscapeBlocks \cup QuoteBlocks \cup UnicodeTexts \cup StringTexts
        \cup CommentedTexts \cup AnnotationTexts

ScanInit ==
    /\ \E code \in ScanTexts, ignore_errors \in BOOLEAN :
           tokenizer = NewTokenizer(code, ignore_errors)
    /\ emitted = <<>>
    /\ tpc = "pre"
    /\ BinIdle
    /\ ParIdle

SpecScan == ScanInit /\ [][LexNext]_vars

(***************************************************************************)
(* The flat lists the binary-operation specification starts from: the      *)
(* operands are the literals 1, 2, ... in source order, the operators are  *)
(* drawn from BinOps, a choice of operators of the precedence table.       *)
(***************************************************************************)
MaxOps == 4

BinOps == {"||", "&&", "==", "<", "+", "-", "*", "/"}

Digit(n) == <<"0", "1", "2", "3", "4", "5", "6", "7", "8", "9">>[n + 1]

FlatParts(ops) ==
    [n \in 1..(2 * Len(ops) + 1) |->
        IF n % 2 = 1 THEN Literal(Digit((n + 1) \div 2)) ELSE Op(ops[n \div 2])]

OpLists == UNION {[1..n -> BinOps] : n \in 0..MaxOps}

BinInit ==
    /\ parts \in {FlatParts(ops) : ops \in OpLists}
    /\ operation = None
    /\ bpc = "ready"
    /\ LexIdle
    /\ ParIdle

\* the parser applies build_binary_operation(parts) in parse_expression_2
BuildBinaryOperation ==
    /\ bpc = "ready"
    /\ operation' = build_binary_operation(parts, 0)
    /\ bpc' = "done"
    /\ UNCHANGED <<parts, lexVars, parVars>>

BinNext == BuildBinaryOperation

SpecBinary == BinInit /\ [][BinNext]_vars

(***************************************************************************)
(* The reference precedence parse of a flat list, stated by what its tree  *)
(* is rather than by how it is built: the tree read in order is the list,  *)
(* the left operand of an operator is never rooted at an operator of a     *)
(* lower level, and the right operand is rooted at one of a higher level.  *)
(***************************************************************************)
LevelOf(operator) ==
    CHOOSE l \in 0..(NumLevels - 1) : operator \in operator_precedence[l + 1]

RECURSIVE InOrder(_)
InOrder(t) ==
    IF t.k = "BinaryOperation"
    THEN InOrder(t.operandl) \o <<Op(t.operator)>> \o InOrder(t.operandr)
    ELSE <<t>>

RECURSIVE PrecedenceNested(_)
PrecedenceNested(t) ==
    IF t.k # "BinaryOperation" THEN TRUE
    ELSE /\ PrecedenceNested(t.operandl)
         /\ PrecedenceNested(t.operandr)
         /\ t.operandl.k = "BinaryOperation" =>
                LevelOf(t.operandl.operator) >= LevelOf(t.operator)
         /\ t.operandr.k = "BinaryOperation" =>
                LevelOf(t.operandr.operator) > LevelOf(t.operator)

\* C4: for every flat alternating list of operands and table operators,
\* build_binary_operation returns the tree of the reference precedence parse:
\* higher levels nest inside lower ones, equal levels nest to the left, and
\* every operand appears exactly once, in source order.
C4_PrecedenceTree ==
    bpc = "done" =>
        /\ operation.exc = "none"
        /\ InOrder(operation.val) = parts
        /\ PrecedenceNested(operation.val)

\* 1 + 2 * 3 - 4 is ((1 + (2 * 3)) - 4)
C4_Witness ==
    /\ bpc = "done"
    /\ parts = FlatParts(<<"+", "*", "-">>)
    /\ operation.val =
          BinaryOperation("-",
              BinaryOperation("+", Literal("1"),
                  BinaryOperation("*", Literal("2"), Literal("3"))),
              Literal("4"))

(***************************************************************************)
(* Inputs of the parser.  An input is a list of words, the values of its   *)
(* tokens; Tokens(words) is the list that tokenize() makes of the words    *)
(* written with spaces between them.  The position of a token is its       *)
(* ordinal in the list, which stands for its (line, column).               *)
(***************************************************************************)
DigitWords == {"0", "1", "2", "3", "6", "8"}

\* the class that the tokenizer gives a word
TokenClass(value) ==
    IF value = "@" THEN "Annotation"
    ELSE IF value \in SeparatorValues THEN "Separator"
    ELSE IF value \in OperatorValues THEN "Operator"
    ELSE IF value \in DigitWords THEN "DecimalInteger"
    ELSE IdentifierType(value)

Tokens(words) ==
    [n \in 1..Len(words) |-> JavaToken(TokenClass(words[n]), words[n], n, NoJavadoc)]

\* the words of the tokens that the parser p was made with
Words(p) == [n \in 1..Len(p.tokens) |-> p.tokens[n].value]

\* the inputs that end inside w
ProperPrefixes(w) == {SubSeq(w, 1, n) : n \in 1..(Len(w) - 1)}

\* what a call left in `returned`: its value or its exception
Outcome(r) == [exc |-> r.exc, val |-> r.val]

(***************************************************************************)
(* Specification SpecUnit: parse_compilation_unit on a compilation unit of *)
(* up to MaxDecls declarations after an optional package or import         *)
(* declaration, or on a unit that ends inside its last declaration.        *)
(* frame holds the local variables package, imports and declarations_list; *)
(* ppc is "head" before the loop over the declarations, "loop" at its      *)
(* test, "after" when `break` has left it, and "returned" or "raised" at   *)
(* the end of the call.                                                    *)
(***************************************************************************)
MaxDecls == 2

ClassA == <<"class", "A", "{", "}">>

ClassB == <<"class", "B", "{", "}">>

PublicClassA == <<"public", "class", "A", "{", "}">>

GenericClassA == <<"class", "A", "<", "T", ">", "{", "}">>

NestedClassA == <<"class", "A", "{", "class", "B", "{", "}", "}">>

RecordPoint ==
    <<"public", "record", "Point", "(", "int", "x", ",", "int", "y", ")", "{", "}">>

\* the well-formed type declarations, with the class and the name of their node
TypeDeclarations ==
    {[words |-> ClassA, kind |-> "ClassDeclaration", name |-> "A"],
     [words |-> ClassB, kind |-> "ClassDeclaration", name |-> "B"],
     [words |-> PublicClassA, kind |-> "ClassDeclaration", name |-> "A"],
     [words |-> GenericClassA, kind |-> "ClassDeclaration", name |-> "A"],
     [words |-> NestedClassA, kind |-> "ClassDeclaration", name |-> "A"],
     [words |-> RecordPoint, kind |-> "RecordDeclaration", name |-> "Point"]}

Declarations == {d.words : d \in TypeDeclarations} \cup {<<";">>}

Preambles ==
    {<<>>, <<"package", "a", ";">>, <<"import", "a", ".", "b", ";">>,
     <<"import", "static", "a", ".", "*", ";">>}

\* declarations with a semicolon between them, after them or before them
StrayLists ==
    {<<ClassA, <<";">>, ClassB>>, <<ClassA, ClassB, <<";">>>>,
     <<<<";">>, ClassA, ClassB>>, <<ClassA, <<";">>, <<";">>>>}

UnitLists == ListsUpTo(Declarations, MaxDecls) \cup StrayLists

Units == {pre \o Flatten(l) : pre \in Preambles, l \in UnitLists}

\* a type declaration that the end of the input cuts short.  The body of a
\* record is optional to parse_record_declaration: the record that ends at
\* its ')' is left out.
Truncations ==
    UNION {ProperPrefixes(d.words) : d \in TypeDeclarations}
        \ {SubSeq(RecordPoint, 1, 10)}

TruncatedUnits ==
    {Flatten(l) \o t : l \in ListsUpTo(Declarations, MaxDecls - 1), t \in Truncations}

UnitInit ==
    /\ LexIdle
    /\ BinIdle
    /\ \E words \in Units \cup TruncatedUnits, strict_pop \in BOOLEAN :
           parser = NewParser(Tokens(words), strict_pop)
    /\ frame = None
    /\ ppc = "head"
    /\ returned = Pending

\* parse_compilation_unit up to the loop over the declarations
ParseUnitHead ==
    /\ ppc = "head"
    /\ \E r \in {CompilationUnitHead(parser)} :
           /\ parser' = r.p
           /\ frame' = IF r.exc = "none" THEN r.val ELSE frame
           /\ ppc' = IF r.exc = "none" THEN "loop" ELSE "raised"
           /\ returned' = IF r.exc = "none" THEN returned ELSE Outcome(r)
    /\ UNCHANGED <<lexVars, binVars>>

\* one iteration of the loop over the declarations
ParseDeclaration ==
    /\ ppc = "loop"
    /\ ~IsInstance(look(parser, 0), "EndOfInput")
    /\ \E r \in {CompilationUnitIteration(parser, frame.declarations_list)} :
           /\ parser' = r.p
           /\ frame' = IF r.exc = "none"
                       THEN [frame EXCEPT !.declarations_list = r.val.declarations_list]
                       ELSE frame
           /\ ppc' = IF r.exc # "none" THEN "raised"
                     ELSE IF r.val.jump = "break" THEN "after" ELSE "loop"
           /\ returned' = IF r.exc = "none" THEN returned ELSE Outcome(r)
    /\ UNCHANGED <<lexVars, binVars>>

\* the loop is left, by its test or by `break`: the last pop_marker and the
\* return of the CompilationUnit
ParseUnitReturn ==
    /\ \/ ppc = "after"
       \/ ppc = "loop" /\ IsInstance(look(parser, 0), "EndOfInput")
    /\ \E r \in {CompilationUnitReturn(parser, frame)} :
           /\ parser' = r.p
           /\ ppc' = IF r.exc = "none" THEN "returned" ELSE "raised"
           /\ returned' = Outcome(r)
    /\ UNCHANGED <<frame, lexVars, binVars>>

UnitNext == ParseUnitHead \/ ParseDeclaration \/ ParseUnitReturn

SpecUnit == UnitInit /\ [][UnitNext]_vars

(***************************************************************************)
(* Specification SpecBlock: parse_block on a block of up to MaxStatements  *)
(* statements (entry "block"), and parse_switch_rule on an arrow rule whose *)
(* action is such a block or an expression (entry "rule").  A statement    *)
(* may hold a switch expression with a rule of its own.                    *)
(* frame holds the entry and the local variables labels, guard and         *)
(* statements; ppc is "rule" at the start of parse_switch_rule, "open" at  *)
(* the start of parse_block, "body" at the test of its loop, "finally" at  *)
(* the `finally` of parse_switch_rule, where `returned` holds the          *)
(* exception in flight if there is one, and "returned" or "raised" at the  *)
(* end of the call.                                                        *)
(***************************************************************************)
MaxStatements == 2

Assign == <<"a", "=", "1", ";">>

Compare == <<"a", "<", "b", ";">>

Invoke == <<"a", "(", ")", ";">>

Declare == <<"a", "b", "=", "1", ";">>

DeclareInt == <<"int", "a", "=", "1", ";">>

DeclareVar == <<"var", "a", "=", "1", ";">>

EmptyStatement == <<";">>

TwoNames == <<"a", "b", "c", ";">>

InstanceofPattern == <<"a", "instanceof", "B", "b", ";">>

InstanceofType == <<"a", "instanceof", "B", ";">>

InstanceofPatternAnd == <<"a", "instanceof", "B", "b", "&&", "c", ";">>

YieldOne == <<"yield", "1", ";">>

YieldAssign == <<"yield", "=", "1", ";">>

\* a = switch ( a ) { rule } ;
SwitchStatement(rule) ==
    <<"a", "=", "switch", "(", "a", ")", "{">> \o rule \o <<"}", ";">>

\* default -> { statement }
DefaultBlock(statement) == <<"default", "->", "{">> \o statement \o <<"}">>

\* the statements with a switch expression whose rule has a block
BlockSwitches == {SwitchStatement(DefaultBlock(s)) : s \in {<<>>, Assign, YieldOne}}

ExpressionRules ==
    {<<"default", "->", "1">>, <<"case", "a", "b", "->", "1">>,
     <<"case", "null", "->", "1">>, <<"case", "1", ",", "2", "->", "1">>}

\* arrow rules whose action is an expression that a semicolon ends
DefaultTerminated == <<"default", "->", "0", ";">>

TerminatedRules ==
    <<"case", "1", ",", "2", "->", "6", ";", "case", "3", "->", "8", ";">>
        \o DefaultTerminated

\* switch ( a ) { groups }
ClassicSwitch(groups) == <<"switch", "(", "a", ")", "{">> \o groups \o <<"}">>

\* two default labels before the same statement group
TwoDefaultsOneGroup ==
    {<<"default", ":", "default", ":">> \o Assign,
     <<"default", ":", "case", "1", ":", "default", ":">> \o Assign}

\* two default labels in two different groups
TwoDefaultsTwoGroups ==
    {<<"default", ":">> \o Assign \o <<"default", ":">> \o Assign,
     <<"default", ":">> \o Assign \o <<"case", "1", ":">> \o Assign
         \o <<"default", ":">> \o Assign}

TwoDefaultGroups == TwoDefaultsOneGroup \cup TwoDefaultsTwoGroups

\* the groups with several case labels or several case values
ManyCaseGroups ==
    {<<"case", "1", ":", "case", "2", ":">> \o Assign,
     <<"case", "1", ",", "2", ":">> \o Assign,
     <<"case", "1", ",", "2", ":", "case", "3", ":", "default", ":">> \o Assign}

ClassicSwitches == {ClassicSwitch(g) : g \in TwoDefaultGroups \cup ManyCaseGroups}

\* the statements that are well formed wherever they stand
PlainStatements == {Assign, Compare, Declare, DeclareInt, EmptyStatement}

\* the statements that the blocks are made of
Statements ==
    PlainStatements \cup {TwoNames, InstanceofPattern, YieldOne, YieldAssign}
        \cup BlockSwitches \cup {SwitchStatement(<<"default", "->", "1">>)}

\* the statements that stand alone in a block
LoneStatements ==
    {Invoke, InstanceofType, InstanceofPatternAnd, DeclareVar} \cup ClassicSwitches
        \cup {SwitchStatement(rule) :
                  rule \in ExpressionRules \cup {DefaultTerminated, TerminatedRules}}

Blocks ==
    ListsUpTo(Statements, MaxStatements) \cup {<<s>> : s \in LoneStatements}

BlockWords(l) == <<"{">> \o Flatten(l) \o <<"}">>

RuleWords(l) == <<"default", "->">> \o BlockWords(l)

EntryInputs(entry) ==
    IF entry = "block" THEN {BlockWords(l) : l \in Blocks}
    ELSE {RuleWords(l) : l \in Blocks}
             \cup ExpressionRules
             \cup {<<"case", "a", "b", "when", "a", "->", "1">>,
                   <<"case", "a", "b", "->", "{", "}">>, <<"a", "->", "1">>}

BlockInit ==
    /\ LexIdle
    /\ BinIdle
    /\ \E entry \in {"block", "rule"}, strict_pop \in BOOLEAN :
           /\ \E words \in EntryInputs(entry) :
                  parser = NewParser(Tokens(words), strict_pop)
           /\ frame = [entry |-> entry, labels |-> <<>>, guard |-> None,
                       statements |-> <<>>]
           /\ ppc = IF entry = "rule" THEN "rule" ELSE "open"
    /\ returned = Pending

\* where an exception goes that parse_block raises
Raising(f) == IF f.entry = "rule" THEN "finally" ELSE "raised"

\* parse_switch_rule up to `action = self.parse_block()`, or up to its
\* return when the action is an expression
SwitchRuleStart ==
    /\ ppc = "rule"
    /\ \E r \in {SwitchRuleHead(parser)} :
           IF r.exc # "none"
           THEN /\ parser' = r.p
                /\ ppc' = "raised"
                /\ returned' = Outcome(r)
                /\ UNCHANGED frame
           ELSE IF would_accept(r.p, <<Val("{")>>).val
           THEN /\ parser' = SetFlag(r.p, TRUE)
                /\ frame' = [frame EXCEPT !.labels = r.val.labels,
                                          !.guard = r.val.guard]
                /\ ppc' = "open"
                /\ UNCHANGED returned
           ELSE \E a \in {parse_expression(r.p)} :
                /\ parser' = a.p
                /\ frame' = [frame EXCEPT !.labels = r.val.labels,
                                          !.guard = r.val.guard]
                /\ ppc' = IF a.exc = "none" THEN "returned" ELSE "raised"
                /\ returned' = IF a.exc # "none" THEN Outcome(a)
                               ELSE Returned(SwitchRule(r.val.labels, r.val.guard,
                                                        a.val))
    /\ UNCHANGED <<lexVars, binVars>>

\* parse_block: self.accept('{')
BlockOpen ==
    /\ ppc = "open"
    /\ \E r \in {accept(parser, <<Val("{")>>)} :
           /\ parser' = r.p
           /\ ppc' = IF r.exc = "none" THEN "body" ELSE Raising(frame)
           /\ returned' = IF r.exc = "none" THEN returned ELSE Outcome(r)
    /\ UNCHANGED <<frame, lexVars, binVars>>

\* parse_block: one iteration of `while not self.would_accept('}')`
BlockStatement ==
    /\ ppc = "body"
    /\ ~would_accept(parser, <<Val("}")>>).val
    /\ \E r \in {parse_block_statement(parser)} :
           /\ parser' = r.p
           /\ frame' = IF r.exc = "none"
                       THEN [frame EXCEPT !.statements = Append(@, r.val)]
                       ELSE frame
           /\ ppc' = IF r.exc = "none" THEN "body" ELSE Raising(frame)
           /\ returned' = IF r.exc = "none" THEN returned ELSE Outcome(r)
    /\ UNCHANGED <<lexVars, binVars>>

\* parse_block: self.accept('}') and `return statements`
BlockClose ==
    /\ ppc = "body"
    /\ would_accept(parser, <<Val("}")>>).val
    /\ \E r \in {accept(parser, <<Val("}")>>)} :
           /\ parser' = r.p
           /\ ppc' = IF r.exc # "none" THEN Raising(frame)
                     ELSE IF frame.entry = "rule" THEN "finally" ELSE "returned"
           /\ returned' = IF r.exc # "none" THEN Outcome(r)
                          ELSE IF frame.entry = "rule" THEN returned
                          ELSE Returned(frame.statements)
    /\ UNCHANGED <<frame, lexVars, binVars>>

\* parse_switch_rule: the `finally`, and the return of the SwitchRule if no
\* exception is in flight
SwitchRuleFinally ==
    /\ ppc = "finally"
    /\ parser' = SetFlag(parser, FALSE)
    /\ ppc' = IF returned = Pending THEN "returned" ELSE "raised"
    /\ returned' = IF returned = Pending
                   THEN Returned(SwitchRule(frame.labels, frame.guard,
                                            frame.statements))
                   ELSE returned
    /\ UNCHANGED <<frame, lexVars, binVars>>

BlockNext ==
    SwitchRuleStart \/ BlockOpen \/ BlockStatement \/ BlockClose \/ SwitchRuleFinally

SpecBlock == BlockInit /\ [][BlockNext]_vars

\* no call of either specification takes a branch that is cut off
NoCutOff == returned.exc # "NotModelled"

\* the call has ended
Done == ppc \in {"returned", "raised"}

(***************************************************************************)
(* Claims about parse_compilation_unit (SpecUnit).                         *)
(***************************************************************************)
\* C1: a compilation unit that is exactly one well-formed type declaration
\* parses, and the declarations of the CompilationUnit returned are exactly
\* one node, of the class and with the name of that declaration.
C1_OneDeclaration ==
    \A d \in TypeDeclarations :
        (Done /\ Words(parser) = d.words) =>
            /\ returned.exc = "none"
            /\ Len(returned.val.declarations) = 1
            /\ returned.val.declarations[1].k = d.kind
            /\ returned.val.declarations[1].name = d.name

\* C3: every push_marker is matched by exactly one pop_marker: pop_marker is
\* never called while no marker is open, and no marker is open when
\* parse_compilation_unit returns.
C3_MarkersMatched ==
    /\ parser.unmatched_pops = 0
    /\ ppc = "returned" => parser.saved_markers = <<>>

\* C8: on an input that ends inside a declaration the call raises
\* JavaSyntaxError: it returns no tree and raises nothing else.
C8_TruncatedRaisesSyntaxError ==
    (Done /\ Words(parser) \in TruncatedUnits) =>
        (ppc = "raised" /\ returned.exc = "JavaSyntaxError")

(***************************************************************************)
(* Claims about blocks and arrow rules (SpecBlock).                        *)
(***************************************************************************)
\* the case of C2 at the parser p, which is about to parse a block statement:
\* the statement starts with an identifier, the attempt at a local variable
\* declaration raises JavaSyntaxError, and parse_statement from the first
\* token of the statement succeeds
FallbackCase(p) ==
    /\ ~would_accept(p, <<Cls("Identifier"), Val(":")>>).val
    /\ LookPastModifiers(p, 0, FALSE).stop = "break"
    /\ IsInstance(look(p, 0), "Identifier")
    /\ PositionedDeclaration(push_marker(p), look(p, 0)).exc = "JavaSyntaxError"
    /\ parse_statement(p).exc = "none"

\* C2: when the attempt at a declaration fails and the fallback succeeds,
\* parse_block_statement leaves the cursor, and returns the statement, as
\* parse_statement does from the first token of the statement with no
\* attempt made: no token is lost and none is read twice.
C2_FallbackCursor ==
    (ppc = "body" /\ FallbackCase(parser)) =>
        /\ parse_block_statement(parser).exc = "none"
        /\ parse_block_statement(parser).p = parse_statement(parser).p
        /\ parse_block_statement(parser).val = parse_statement(parser).val
        /\ parse_block_statement(parser).val.position = look(parser, 0).position

\* the block statement just parsed was the case of C2: an expression
\* statement that starts at an identifier, parsed after the attempt at a
\* declaration failed, with the cursor after its last token
C2_Witness ==
    /\ ppc = "body"
    /\ frame.statements # <<>>
    /\ frame.statements[Len(frame.statements)].k = "StatementExpression"
    /\ FallbackCase([parser EXCEPT
           !.marker = frame.statements[Len(frame.statements)].position - 1])
    /\ parse_statement([parser EXCEPT
           !.marker = frame.statements[Len(frame.statements)].position - 1]).p.marker
         = parser.marker
    /\ parser.marker > frame.statements[Len(frame.statements)].position

\* the blocks of an arrow rule with a statement `yield 1 ;` among well-formed
\* statements, one of which may hold an arrow rule with a block of its own
YieldBlocks ==
    {l \in ListsUpTo(PlainStatements \cup BlockSwitches \cup {YieldOne},
                     MaxStatements) :
        \E n \in 1..Len(l) : l[n] = YieldOne}

\* the statement n of the block l was parsed as the statement `yield 1 ;`
YieldParsed(l, n) ==
    /\ returned.val.action[n].k = "YieldStatement"
    /\ returned.val.action[n].expression.value = "1"

\* `yield 1 ;` is parsed as a YieldStatement when no statement before it in
\* the block holds an arrow rule with a block
YieldBeforeNestedBlock ==
    \A l \in YieldBlocks :
        (Done /\ frame.entry = "rule" /\ Words(parser) = RuleWords(l)) =>
            \A n \in 1..Len(l) :
                (l[n] = YieldOne /\ \A m \in 1..(n - 1) : l[m] \notin BlockSwitches) =>
                    /\ returned.exc = "none"
                    /\ Len(returned.val.action) = Len(l)
                    /\ YieldParsed(l, n)

\* after a statement that holds an arrow rule with a block, `yield 1 ;` is
\* taken for the expression statement `1 ;`
YieldAfterNestedBlock ==
    \A l \in YieldBlocks :
        (Done /\ frame.entry = "rule" /\ Words(parser) = RuleWords(l)) =>
            \A n \in 2..Len(l) :
                (l[n] = YieldOne /\ l[n - 1] \in BlockSwitches) =>
                    /\ returned.exc = "none"
                    /\ returned.val.action[n].k = "StatementExpression"
                    /\ returned.val.action[n].expression.value = "1"

\* C5: in the block of an arrow rule a statement `yield 1 ;` is parsed as a
\* YieldStatement whose expression is the literal, and the action of the
\* rule is the list of the statements of the block.
C5_YieldStatement ==
    \A l \in YieldBlocks :
        (Done /\ frame.entry = "rule" /\ Words(parser) = RuleWords(l)) =>
            /\ returned.exc = "none"
            /\ Len(returned.val.action) = Len(l)
            /\ \A n \in 1..Len(l) : l[n] = YieldOne => YieldParsed(l, n)

\* the ordinary blocks with a statement `yield = 1 ;` among well-formed
\* statements, one of which may hold an arrow rule with a block
OrdinaryYieldBlocks ==
    {l \in ListsUpTo(PlainStatements \cup BlockSwitches \cup {YieldAssign},
                     MaxStatements) :
        /\ \E n \in 1..Len(l) : l[n] = YieldAssign
        /\ \A n \in 1..Len(l) : l[n] # SwitchStatement(DefaultBlock(YieldOne))}

\* C6: outside the block of an arrow rule, also right after a statement that
\* holds such a block, a statement that starts with `yield` is an expression
\* statement in which yield is a plain name, and no YieldStatement is built.
C6_YieldIsIdentifier ==
    \A l \in OrdinaryYieldBlocks :
        (Done /\ frame.entry = "block" /\ Words(parser) = BlockWords(l)) =>
            /\ returned.exc = "none"
            /\ Len(returned.val) = Len(l)
            /\ \A n \in 1..Len(l) :
                   /\ returned.val[n].k # "YieldStatement"
                   /\ l[n] = YieldAssign =>
                          /\ returned.val[n].k = "StatementExpression"
                          /\ returned.val[n].expression.k = "Assignment"
                          /\ returned.val[n].expression.expressionl.member = "yield"

\* C7: parsing_switch_expression_block is true exactly while the parser is in
\* the block of an arrow rule: false before the rule and after it, false in
\* an ordinary block, and true at every statement of the block of the rule,
\* also after a statement that holds a rule with a block of its own.
C7_FlagTracksArrowBlock ==
    parser.parsing_switch_expression_block
        <=> (frame.entry = "rule" /\ ppc \in {"open", "body", "finally"})

(***************************************************************************)
(* Claims about the tokenizer, under SpecLex.                              *)
(***************************************************************************)
\* C9: with ignore_errors false, tokenize either yields its tokens to the
\* end of the input or fails by raising LexerError; no other kind of
\* failure escapes, also when the input ends inside or right after a
\* numeric literal.
C9_OnlyLexerError ==
    (tpc = "raised" /\ ~tokenizer.ignore_errors) => tokenizer.exc = "LexerError"

\* C10: with ignore_errors true, tokenize never raises on a lexical error:
\* once an error is appended to the list of errors, scanning goes on until
\* the end of the input.
C10_ErrorsNeverRaise ==
    (tokenizer.ignore_errors /\ tokenizer.errors # <<>>) => tpc # "raised"

(***************************************************************************)
(* Claims about the tokenizer, under SpecScan.  The reference value of a   *)
(* text block is stated on the lines of its content, by what the value is. *)
(***************************************************************************)
\* the raw content of the text block that the text cs is
ContentOf(cs) == SubSeq(cs, 4, Len(cs) - 3)

\* cs is the source text of one text block with a content over chars
IsBlockOver(cs, chars) ==
    /\ Len(cs) >= 6
    /\ SubSeq(cs, 1, 3) = TripleQuote
    /\ SubSeq(cs, Len(cs) - 2, Len(cs)) = TripleQuote
    /\ \A k \in 4..(Len(cs) - 3) : cs[k] \in chars

\* the lines of a content: the text between its line terminators
RECURSIVE RefSplit(_, _)
RefSplit(cs, line) ==
    IF cs = <<>> THEN <<line>>
    ELSE IF cs[1] = "\n" THEN <<line>> \o RefSplit(Tail(cs), <<>>)
    ELSE RefSplit(Tail(cs), Append(line, cs[1]))

RefLines(content) == RefSplit(content, <<>>)

RefBlanks == {" ", "\t"}

RefIsBlank(line) == \A k \in 1..Len(line) : line[k] \in RefBlanks

\* the width of the leading white space of a line
RefIndent(line) ==
    CHOOSE n \in 0..Len(line) :
        /\ \A k \in 1..n : line[k] \in RefBlanks
        /\ n = Len(line) \/ line[n + 1] \notin RefBlanks

\* the line without its trailing white space
RefTrimEnd(line) ==
    SubSeq(line, 1, CHOOSE m \in 0..Len(line) :
                        /\ \A k \in (m + 1)..Len(line) : line[k] \in RefBlanks
                        /\ m = 0 \/ line[m] \notin RefBlanks)

\* the least indent of the lines that are not blank
RefCommonIndent(lines) ==
    LET widths == {RefIndent(lines[n]) :
                      n \in {m \in 1..Len(lines) : ~RefIsBlank(lines[m])}}
    IN IF widths = {} THEN 0
       ELSE CHOOSE w \in widths : \A v \in widths : w <= v

RECURSIVE RefJoin(_)
RefJoin(lines) ==
    IF lines = <<>> THEN <<>>
    ELSE IF Len(lines) = 1 THEN lines[1]
    ELSE lines[1] \o <<"\n">> \o RefJoin(Tail(lines))

\* the content with the common indent and the trailing white space removed
RefStripped(content) ==
    LET lines == RefLines(content)
        indent == RefCommonIndent(lines)
    IN RefJoin([n \in 1..Len(lines) |->
                   IF RefIsBlank(lines[n]) THEN <<>>
                   ELSE RefTrimEnd(SubSeq(lines[n], indent + 1, Len(lines[n])))])

\* C11: the value of a text block is its content with the least indent of
\* the lines that are not blank removed from each of them, the trailing
\* white space removed from every line, and every blank line made empty.
C11_IndentStripped ==
    (tpc \in {"done", "raised"} /\ IsBlockOver(tokenizer.data, IndentChars)) =>
        /\ tpc = "done"
        /\ Len(emitted) = 1
        /\ emitted[1].type = "String"
        /\ emitted[1].value = Join(RefStripped(ContentOf(tokenizer.data)))

\* two lines of indents 1 and 2: the first loses its indent, the second
\* keeps one space
C11_Witness ==
    /\ tpc = "done"
    /\ tokenizer.data = TextBlock(<<" ", "a", "\n", " ", " ", "a">>)
    /\ emitted[1].value = "a\n a"

\* the text without every backslash that a line terminator follows, and
\* without that line terminator
RECURSIVE RefJoinContinued(_)
RefJoinContinued(cs) ==
    IF cs = <<>> THEN <<>>
    ELSE IF Len(cs) >= 2 /\ cs[1] = "\\" /\ cs[2] = "\n" THEN RefJoinContinued(Tail(Tail(cs)))
    ELSE <<cs[1]>> \o RefJoinContinued(Tail(cs))

\* the character that the escape of the letter c denotes, <<>> when there
\* is no such escape
RefEscape(c) ==
    CASE c = "s" -> <<" ">>
      [] c = "n" -> <<"\n">>
      [] c = "t" -> <<"\t">>
      [] c \in {"\\", "\""} -> <<c>>
      [] OTHER -> <<>>

\* every backslash of cs starts an escape
RECURSIVE RefEscapesLegal(_)
RefEscapesLegal(cs) ==
    IF cs = <<>> THEN TRUE
    ELSE IF cs[1] # "\\" THEN RefEscapesLegal(Tail(cs))
    ELSE /\ Len(cs) >= 2
         /\ RefEscape(cs[2]) # <<>>
         /\ RefEscapesLegal(Tail(Tail(cs)))

\* cs with its escapes replaced by the characters they denote
RECURSIVE RefDecoded(_)
RefDecoded(cs) ==
    IF cs = <<>> THEN <<>>
    ELSE IF cs[1] # "\\" THEN <<cs[1]>> \o RefDecoded(Tail(cs))
    ELSE RefEscape(cs[2]) \o RefDecoded(Tail(Tail(cs)))

\* C12: in a text block the escapes are processed after the indentation and
\* the trailing white space are stripped: a backslash before a line
\* terminator removes both and joins the two lines, and the space of \s is
\* kept, also at the end of a line.
C12_EscapesAfterStripping ==
    (/\ tpc \in {"done", "raised"}
     /\ IsBlockOver(tokenizer.data, EscapeChars)
     /\ RefEscapesLegal(RefJoinContinued(RefStripped(ContentOf(tokenizer.data))))) =>
        /\ tpc = "done"
        /\ Len(emitted) = 1
        /\ emitted[1].value =
               Join(RefDecoded(RefJoinContinued(RefStripped(ContentOf(tokenizer.data)))))

\* the content \s, backslash, line terminator, a: the space of \s is kept
\* and the two lines are joined
C12_Witness ==
    /\ tpc = "done"
    /\ tokenizer.data = TextBlock(<<"\\", "s", "\\", "\n", "a">>)
    /\ emitted[1].value = " a"

\* C13: a text block ends at the first triple quote that is not escaped: a
\* triple quote after an escaping backslash is content, and the text of the
\* block is one literal whose value holds that triple quote.
C13_EscapedTripleQuote ==
    (tpc \in {"done", "raised"} /\ tokenizer.data \in QuoteBlocks) =>
        /\ tpc = "done"
        /\ Len(emitted) = 1
        /\ emitted[1].type = "String"
        /\ \E x, y \in Affixes :
               /\ tokenizer.data = TextBlock(x \o <<"\\">> \o TripleQuote \o y)
               /\ emitted[1].value = Join(x \o TripleQuote \o y)

\* the number of backslashes that cs starts with
RECURSIVE RefBackslashes(_)
RefBackslashes(cs) ==
    IF cs # <<>> /\ cs[1] = "\\" THEN 1 + RefBackslashes(Tail(cs)) ELSE 0

\* the number of letters u that cs starts with
RECURSIVE RefMarkers(_)
RefMarkers(cs) == IF cs # <<>> /\ cs[1] = "u" THEN 1 + RefMarkers(Tail(cs)) ELSE 0

\* the character of a code of four hex digits
RefCharOf(code) ==
    CASE code = <<"0", "0", "6", "1">> -> "a"
      [] code = <<"0", "0", "6", "9">> -> "i"
      [] code = <<"0", "0", "5", "c">> -> "\\"

RefDrop(cs, n) == SubSeq(cs, n + 1, Len(cs))

\* the text with every Unicode escape replaced: an escape is an odd run of
\* backslashes, letters u and a code, and its last backslash, the letters u
\* and the code give way to the character
RECURSIVE RefUnicode(_)
RefUnicode(cs) ==
    IF cs = <<>> THEN <<>>
    ELSE IF cs[1] # "\\" THEN <<cs[1]>> \o RefUnicode(Tail(cs))
    ELSE LET n == RefBackslashes(cs)
             m == RefMarkers(RefDrop(cs, n))
             code == SubSeq(cs, n + m + 1, n + m + 4)
         IN IF n % 2 = 1 /\ m >= 1 /\ code \in HexCodes
            THEN SubSeq(cs, 1, n - 1) \o <<RefCharOf(code)>>
                     \o RefUnicode(RefDrop(cs, n + m + 4))
            ELSE SubSeq(cs, 1, n) \o RefUnicode(RefDrop(cs, n))

\* C14: pre_tokenize replaces a Unicode escape whose u follows an odd number
\* of backslashes by its character and leaves the text as it is when the
\* number is even, and the scan classifies the text after the replacement:
\* the text that spells if with an escape gives the keyword if.
C14_UnicodeEscapes ==
    /\ [][(PreTokenize /\ tokenizer.data \in UnicodeTexts) =>
              /\ tokenizer'.exc = "none"
              /\ tokenizer'.data = RefUnicode(tokenizer.data)]_vars
    /\ []((tpc \in {"done", "raised"} /\ tokenizer.data = <<"i", "f">>) =>
              /\ tpc = "done"
              /\ Len(emitted) = 1
              /\ emitted[1].type = "Keyword"
              /\ emitted[1].value = "if")

\* the texts that spell if with an escape for the i have been scanned
C14_Witness ==
    /\ tpc = "done"
    /\ tokenizer.data = <<"i", "f">>
    /\ emitted[1].type = "Keyword"

\* the position in cs, from k on, of the first delimiter that no backslash
\* escapes, 0 when there is none: a backslash escapes the character after it
RECURSIVE RefClosing(_, _, _)
RefClosing(cs, delim, k) ==
    IF k > Len(cs) THEN 0
    ELSE IF cs[k] = "\\" THEN RefClosing(cs, delim, k + 2)
    ELSE IF cs[k] = delim THEN k
    ELSE RefClosing(cs, delim, k + 1)

\* cs starts with a quote that does not open a text block
IsQuoted(cs) ==
    /\ cs \in StringTexts
    /\ ~(Len(cs) >= 3 /\ SubSeq(cs, 1, 3) = TripleQuote)

\* C15: a quoted string or character literal ends at the first occurrence
\* of its opening delimiter that no backslash escapes, and the value of its
\* token is the source text from the opening to the closing delimiter, the
\* escapes as they are written.
C15_QuotedLiteral ==
    (/\ tpc \in {"done", "raised"}
     /\ IsQuoted(tokenizer.data)
     /\ RefClosing(tokenizer.data, tokenizer.data[1], 2) # 0) =>
        /\ emitted # <<>>
        /\ emitted[1].type = "String"
        /\ emitted[1].value =
               Join(SubSeq(tokenizer.data, 1,
                           RefClosing(tokenizer.data, tokenizer.data[1], 2)))

\* the literal of an escaped quote: the quote after the backslash does not
\* end it
C15_Witness ==
    /\ tpc = "done"
    /\ tokenizer.data = <<"\"", "\\", "\"", "\"">>
    /\ emitted = <<JavaToken("String", "\"\\\"\"", Position(1, 1), NoJavadoc)>>

\* the pieces that the text cs is made of, from left to right (no piece is
\* the beginning of another one)
RECURSIVE RefPieces(_)
RefPieces(cs) ==
    IF cs = <<>> THEN <<>>
    ELSE LET p == CHOOSE q \in Pieces : StartsWith(cs, q)
         IN <<p>> \o RefPieces(SubSeq(cs, Len(p) + 1, Len(cs)))

\* the documentation comment that each token of the pieces ps carries, when
\* `pending` is the documentation comment met since the last token: a
\* documentation comment replaces the pending one, a token carries the pending
\* one and clears it, anything else leaves it
RECURSIVE RefJavadocs(_, _)
RefJavadocs(ps, pending) ==
    IF ps = <<>> THEN <<>>
    ELSE IF Head(ps) \in DocComments THEN RefJavadocs(Tail(ps), Join(Head(ps)))
    ELSE IF Head(ps) \in TokenPieces
         THEN <<pending>> \o RefJavadocs(Tail(ps), NoJavadoc)
    ELSE RefJavadocs(Tail(ps), pending)

\* the texts that tokenize() must reject: a character that starts no token,
\* when errors are not ignored
RefRejected(t) ==
    ~t.ignore_errors /\ \E k \in 1..Len(t.data) : t.data[k] = "#"

\* C16: each documentation comment /** ... */ is attached to exactly one
\* token, the first token emitted after it, and is then cleared: a token that
\* no documentation comment precedes since the previous token carries none,
\* and of several documentation comments before a token the nearest is the
\* one attached.  Stated on every text of CommentedTexts once tokenize() has
\* ended.
C16_JavadocOnNextToken ==
    (tpc \in {"done", "raised"} /\ tokenizer.data \in CommentedTexts) =>
        IF RefRejected(tokenizer) THEN tpc = "raised"
        ELSE /\ tpc = "done"
             /\ [k \in 1..Len(emitted) |-> emitted[k].javadoc]
                    = RefJavadocs(RefPieces(tokenizer.data), NoJavadoc)

\* the same on the texts where the comment /**/ , which has no body, does
\* not occur
JavadocWithoutEmptyComment ==
    (\A k \in 1..(Len(tokenizer.data) - 3) :
         SubSeq(tokenizer.data, k, k + 3) # <<"/", "*", "*", "/">>)
        => C16_JavadocOnNextToken

(***************************************************************************)
(* Claims about expressions and statements, under SpecBlock.               *)
(***************************************************************************)
\* parse_block has returned the statements of the one-statement block l
BlockReturned(statement) ==
    /\ Done
    /\ frame.entry = "block"
    /\ Words(parser) = BlockWords(<<statement>>)

\* the node is the reference to the name `member`
IsName(node, member) == node.k = "MemberReference" /\ node.member = member

\* the node is the reference type `name`, with no arguments and no dimensions
IsTypeNamed(node, name) ==
    /\ node.k = "ReferenceType"
    /\ node.name = name
    /\ node.arguments = <<>>
    /\ node.dimensions = 0

\* the node is `a instanceof B b`
IsPatternTest(node) ==
    /\ node.k = "InstanceOfPatternExpression"
    /\ IsName(node.expression, "a")
    /\ IsTypeNamed(node.type, "B")
    /\ node.pattern.k = "FormalParameter"
    /\ node.pattern.name = "b"
    /\ IsTypeNamed(node.pattern.type, "B")

\* C17: parsing `e instanceof T v`, where v is an identifier that no `.`, `(`
\* or `[` follows, yields an InstanceOfPatternExpression whose expression is
\* e, whose type is T and whose pattern is a FormalParameter named v of type
\* T; in `e instanceof T v && c` that node is the left operand of `&&`.
C17_InstanceofPattern ==
    /\ BlockReturned(InstanceofPattern) =>
           /\ ppc = "returned"
           /\ Len(returned.val) = 1
           /\ IsPatternTest(returned.val[1].expression)
    /\ BlockReturned(InstanceofPatternAnd) =>
           /\ ppc = "returned"
           /\ Len(returned.val) = 1
           /\ returned.val[1].expression.k = "BinaryOperation"
           /\ returned.val[1].expression.operator = "&&"
           /\ IsPatternTest(returned.val[1].expression.operandl)
           /\ IsName(returned.val[1].expression.operandr, "c")

\* C18: parsing `e instanceof T`, where neither a binding identifier nor `(`
\* follows T, succeeds and yields a BinaryOperation with the operator
\* instanceof, the left operand e and the right operand T; the tokens of T
\* are consumed once, and parsing continues at the token after T.
C18_InstanceofType ==
    BlockReturned(InstanceofType) =>
        /\ ppc = "returned"
        /\ Len(returned.val) = 1
        /\ returned.val[1].expression.k = "BinaryOperation"
        /\ returned.val[1].expression.operator = "instanceof"
        /\ IsName(returned.val[1].expression.operandl, "a")
        /\ IsTypeNamed(returned.val[1].expression.operandr, "B")
        /\ look(parser, 0).k = "EndOfInput"

\* C19: in a method body the block statement `var <name> = <initializer>;` is
\* parsed as a LocalVariableDeclaration whose type is the reference type
\* named var, with no dimensions, and whose single declarator has that name
\* and that initializer.
C19_VarDeclaration ==
    BlockReturned(DeclareVar) =>
        /\ ppc = "returned"
        /\ Len(returned.val) = 1
        /\ returned.val[1].k = "LocalVariableDeclaration"
        /\ IsTypeNamed(returned.val[1].type, "var")
        /\ Len(returned.val[1].declarators) = 1
        /\ returned.val[1].declarators[1].name = "a"
        /\ returned.val[1].declarators[1].initializer.k = "Literal"
        /\ returned.val[1].declarators[1].initializer.value = "1"

\* the values of the literals of the sequence nodes
LiteralValues(nodes) ==
    [n \in 1..Len(nodes) |-> IF nodes[n].k = "Literal" THEN nodes[n].value ELSE "?"]

\* the rule is an arrow rule with the labels `labels`, which are literals, no
\* guard, and the literal `action` for its action
IsRule(rule, labels, action) ==
    /\ rule.k = "SwitchRule"
    /\ LiteralValues(rule.labels) = labels
    /\ rule.guard = None
    /\ LiteralValues(<<rule.action>>) = <<action>>

\* parse_block has returned the statement `a = switch (a) { rules }`, and the
\* rules of the switch expression are those of expected, in that order
SwitchParsed(expected) ==
    /\ ppc = "returned"
    /\ Len(returned.val) = 1
    /\ returned.val[1].k = "StatementExpression"
    /\ returned.val[1].expression.k = "Assignment"
    /\ returned.val[1].expression.value.k = "SwitchExpression"
    /\ LET cases == returned.val[1].expression.value.cases
       IN /\ Len(cases) = Len(expected)
          /\ \A n \in 1..Len(expected) :
                 IsRule(cases[n], expected[n].labels, expected[n].action)

\* C20: a switch expression whose arrow rules have single-expression actions,
\* each ended by `;`, parses into a SwitchExpression with one SwitchRule per
\* rule, in source order: `case a, b -> x;` has the labels a and b and the
\* action x, and `default -> x;` has the single label Literal 'default'.
C20_SwitchRules ==
    /\ BlockReturned(SwitchStatement(DefaultTerminated)) =>
           SwitchParsed(<<[labels |-> <<"'default'">>, action |-> "0"]>>)
    /\ BlockReturned(SwitchStatement(TerminatedRules)) =>
           SwitchParsed(<<[labels |-> <<"1", "2">>, action |-> "6"],
                          [labels |-> <<"3">>, action |-> "8"],
                          [labels |-> <<"'default'">>, action |-> "0"]>>)

\* the same statement when no semicolon follows the action of the rule
SwitchRuleUnterminated ==
    BlockReturned(SwitchStatement(<<"default", "->", "1">>)) =>
        SwitchParsed(<<[labels |-> <<"'default'">>, action |-> "1"]>>)

\* C21: a classic switch block accepts at most one default label: a switch
\* statement with two default labels, before the same statement group or in
\* two different groups, is rejected with a syntax error, while several case
\* labels and several case values before one group are accepted.
C21_AtMostOneDefault ==
    \A groups \in TwoDefaultGroups \cup ManyCaseGroups :
        BlockReturned(ClassicSwitch(groups)) =>
            IF groups \in TwoDefaultGroups
            THEN ppc = "raised" /\ returned.exc = "JavaSyntaxError"
            ELSE /\ ppc = "returned"
                 /\ Len(returned.val) = 1
                 /\ returned.val[1].k = "SwitchStatement"
                 /\ Len(returned.val[1].cases) = 1

\* the same without the two default labels in two different groups
OneDefaultPerGroup ==
    (\A groups \in TwoDefaultsTwoGroups : Words(parser) # BlockWords(<<ClassicSwitch(groups)>>))
        => C21_AtMostOneDefault

(***************************************************************************)
(* Specification SpecParen: parse_expression_3 on an expression that       *)
(* MaxPrefix prefix operators at most come before, most of them starting   *)
(* with '('.  ppc is "prefix" at the start of the call, "lambda" before    *)
(* the first `try`, "cast" before the second one, "primary" before         *)
(* `primary = self.parse_primary()`, and "returned" or "raised" at the end *)
(* of the call.  frame holds the local variable prefix_operators and the   *)
(* attempts made so far.                                                   *)
(***************************************************************************)
MaxPrefix == 2

Prefixes == TextsOver({"-", "!"}, MaxPrefix)

ParenOperands ==
    {<<"(", "a", ",", "b", ")", "->", "a">>, <<"(", ")", "->", "a">>,
     <<"(", "int", "a", ")", "->", "a">>, <<"(", "int", "a", ")">>,
     <<"(", "int", ")", "a">>, <<"(", "B", ")", "a">>, <<"(", "int", ")", "(", "a", ")">>,
     <<"(", "a", ")">>, <<"(", "a", "+", "b", ")">>, <<"(", "1", ")">>,
     <<"(", "a", ")", "++">>, <<"(", "-", "a", ")">>, <<"(", "a">>, <<"(">>}

PlainOperands == {<<"a">>, <<"1">>, <<"a", "++">>}

ParenInputs ==
    {prefix \o operand \o rest :
        prefix \in Prefixes, operand \in ParenOperands \cup PlainOperands,
        rest \in {<<>>, <<";">>}}

ParenInit ==
    /\ LexIdle
    /\ BinIdle
    /\ \E words \in ParenInputs, strict_pop \in BOOLEAN :
           parser = NewParser(Tokens(words), strict_pop)
    /\ frame = [entry |-> "expression_3", prefix_operators |-> <<>>,
                attempts |-> <<>>]
    /\ ppc = "prefix"
    /\ returned = Pending

\* the loop over the prefix operators, and the test `self.would_accept('(')`
ConsumePrefix ==
    /\ ppc = "prefix"
    /\ \E r \in {PrefixOperators(parser, <<>>)} :
           /\ parser' = r.p
           /\ frame' = [frame EXCEPT !.prefix_operators = r.val]
           /\ ppc' = IF would_accept(r.p, <<Val("(")>>).val THEN "lambda" ELSE "primary"
    /\ UNCHANGED <<returned, lexVars, binVars>>

\* an attempt that gave r: what it returned is returned, JavaSyntaxError is
\* passed over, any other exception is raised
AfterAttempt(r, name, then) ==
    /\ parser' = r.p
    /\ frame' = [frame EXCEPT !.attempts = Append(@, name)]
    /\ ppc' = IF r.exc = "none" THEN "returned"
              ELSE IF r.exc = "JavaSyntaxError" THEN then ELSE "raised"
    /\ returned' = IF r.exc = "JavaSyntaxError" THEN returned ELSE Outcome(r)
    /\ UNCHANGED <<lexVars, binVars>>

\* the first `try`: the lambda expression
TryLambda ==
    /\ ppc = "lambda"
    /\ AfterAttempt(LambdaAttempt(parser), "lambda", "cast")

\* the second `try`: the cast
TryCast ==
    /\ ppc = "cast"
    /\ AfterAttempt(CastAttempt(parser), "cast", "primary")

\* from `primary = self.parse_primary()` to the return
ParsePrimary ==
    /\ ppc = "primary"
    /\ \E r \in {PrimaryRest(parser, frame.prefix_operators)} :
           /\ parser' = r.p
           /\ ppc' = IF r.exc = "none" THEN "returned" ELSE "raised"
           /\ returned' = Outcome(r)
    /\ UNCHANGED <<frame, lexVars, binVars>>

ParenNext == ConsumePrefix \/ TryLambda \/ TryCast \/ ParsePrimary

SpecParen == ParenInit /\ [][ParenNext]_vars

\* the steps of SpecParen end as the call parse_expression_3() does
ParenAgrees ==
    (frame.entry = "expression_3" /\ Done) =>
        returned = Outcome(parse_expression_3(NewParser(parser.tokens,
                                                        parser.strict_pop)))

\* the cursor after the step is where it was before it
SameCursor ==
    /\ parser'.tokens = parser.tokens
    /\ parser'.marker = parser.marker
    /\ parser'.saved_markers = parser.saved_markers

\* C22: when an expression begins with '(' parse_expression_3 tries the
\* lambda production, then the cast production, then the expression in
\* parentheses, in that order; an attempt that fails with a syntax error pops
\* its marker with rollback, so that the next alternative starts at the same
\* '(' and sees the same tokens.
C22_AlternativesInOrder ==
    [][/\ (ppc = "prefix" /\ would_accept(parser', <<Val("(")>>).val) => ppc' = "lambda"
       /\ ppc' = "lambda" => ppc = "prefix"
       /\ ppc' = "cast" => ppc = "lambda"
       /\ (ppc' = "primary" /\ would_accept(parser', <<Val("(")>>).val) => ppc = "cast"
       /\ (ppc = "lambda" /\ parse_lambda_expression(parser).exc = "JavaSyntaxError")
              => (ppc' = "cast" /\ SameCursor)
       /\ (ppc = "cast" /\ CastBody(parser).exc = "JavaSyntaxError")
              => (ppc' = "primary" /\ SameCursor)
       /\ (ppc = "primary" /\ frame.attempts # <<>>)
              => /\ frame.attempts = <<"lambda", "cast">>
                 /\ parser.marker = Len(frame.prefix_operators)
                 /\ look(parser, 0).value = "("]_vars

\* both attempts at `( a + b )` have consumed tokens and failed, and the
\* expression in parentheses is about to be parsed from the '('
C22_Witness ==
    /\ ppc = "primary"
    /\ frame.attempts = <<"lambda", "cast">>
    /\ Words(parser) = <<"-", "(", "a", "+", "b", ")", ";">>
    /\ parser.marker = 1

\* the prefix operators that the node carries
RecordedPrefix(node) ==
    IF "prefix_operators" \in DOMAIN node THEN node.prefix_operators ELSE <<>>

\* C30: every prefix operator that parse_expression_3 consumes is recorded in
\* the tree it returns, also when the operand after the prefix operators is a
\* cast in parentheses or a lambda expression.
C30_PrefixOperatorsKept ==
    (frame.entry = "expression_3" /\ ppc = "returned") =>
        RecordedPrefix(returned.val) = frame.prefix_operators

\* the same when the tree is neither a cast nor a lambda expression
PrefixOperatorsOfPrimary ==
    (frame.entry = "expression_3" /\ ppc = "returned"
        /\ returned.val.k \notin {"Cast", "LambdaExpression"}) =>
        RecordedPrefix(returned.val) = frame.prefix_operators

(***************************************************************************)
(* More claims about parse_compilation_unit, under SpecUnit.               *)
(***************************************************************************)
\* the list l without its stray semicolons
WithoutSemicolons(l) == SelectSeq(l, LAMBDA words : words # <<";">>)

\* the class and the name of each declaration of the list
Summary(declarations) ==
    [n \in 1..Len(declarations) |->
        [kind |-> declarations[n].k, name |-> declarations[n].name]]

\* the declarations that parse_compilation_unit gives on the words, as the
\* cursor of the parser p behaves
DeclarationsOf(words, p) ==
    Bind(parse_compilation_unit(NewParser(Tokens(words), p.strict_pop)), LAMBDA r :
    IF r.exc = "none" THEN Summary(r.val.declarations) ELSE <<r.exc>>)

\* C23: stray semicolons at the top level of a compilation unit, between or
\* after type declarations, are skipped without an error, and the unit yields
\* the same declarations as the same input without those semicolons.
C23_StraySemicolons ==
    \A pre \in Preambles, l \in UnitLists :
        (Done /\ Words(parser) = pre \o Flatten(l) /\ WithoutSemicolons(l) # l) =>
            /\ ppc = "returned"
            /\ Summary(returned.val.declarations)
                   = DeclarationsOf(pre \o Flatten(WithoutSemicolons(l)), parser)

\* the class and the name of the type declaration whose words are given
SummaryOfWords(words) ==
    LET d == CHOOSE t \in TypeDeclarations : t.words = words
    IN [kind |-> d.kind, name |-> d.name]

\* C28: for a well-formed compilation unit with several top-level type
\* declarations, every declaration is exactly once in the declarations of the
\* root, in source order: no declaration that was parsed is left out.
C28_EveryDeclarationOnce ==
    \A pre \in Preambles, l \in UnitLists :
        (Done /\ Words(parser) = pre \o Flatten(l)
              /\ WithoutSemicolons(l) = l /\ Len(l) >= 2) =>
            /\ ppc = "returned"
            /\ Summary(returned.val.declarations)
                   = [n \in 1..Len(l) |-> SummaryOfWords(l[n])]

(***************************************************************************)
(* Specification SpecAhead: parse_block_statement on a statement that      *)
(* annotations and `final` may come before.  ppc is "entry" at the start   *)
(* of the call, "scan" at the top of `while True`, "parens" at the test of *)
(* `while parens > 0`, "scanned" after the `break`, and "returned" or      *)
(* "raised" at the end of the call.  frame holds the local variables       *)
(* token, found_annotations, i and parens.  The model follows i up to      *)
(* MaxLook, which is more than any call that ends needs (LookWithinBound). *)
(***************************************************************************)
MaxLook == 16

AnnotationHeads ==
    {<<>>, <<"final">>, <<"@", "A">>, <<"@", "A", ".", "B">>, <<"@", "A", "(", ")">>,
     <<"@", "A", "(", "1", ")">>, <<"@", "A", "(", "(", "1", ")", ")">>,
     <<"@", "A", "(", "a", "=", "1", ")">>, <<"final", "@", "A">>,
     <<"@", "A", "@", "B", "(", ")">>,
     <<"@", "A", "(">>, <<"@", "A", "(", "1">>, <<"@", "A", "(", "(", "1", ")">>,
     <<"@", "A", ".", "B", "(", "a", "=", "1">>}

AnnotatedTails ==
    {<<>>, <<"int", "a", ";">>, <<"B", "a", ";">>, <<"a", "=", "1", ";">>,
     <<"class", "A", "{", "}">>, <<"public", "class", "A", "{", "}">>,
     <<"a", ":", ";">>}

AheadInputs == {head \o tail : head \in AnnotationHeads, tail \in AnnotatedTails}

AheadInit ==
    /\ LexIdle
    /\ BinIdle
    /\ \E words \in AheadInputs, strict_pop \in BOOLEAN :
           parser = NewParser(Tokens(words), strict_pop)
    /\ frame = [entry |-> "block_statement", token |-> None,
                found_annotations |-> FALSE, i |-> 0, parens |-> 0]
    /\ ppc = "entry"
    /\ returned = Pending

\* the call ends with the outcome r
AheadEnds(r) ==
    /\ parser' = r.p
    /\ ppc' = IF r.exc = "none" THEN "returned" ELSE "raised"
    /\ returned' = Outcome(r)
    /\ UNCHANGED <<frame, lexVars, binVars>>

\* the two tests before the loop
BlockStatementEntry ==
    /\ ppc = "entry"
    /\ IF \/ would_accept(parser, <<Cls("Identifier"), Val(":")>>).val
          \/ would_accept(parser, <<Val("synchronized")>>).val
       THEN AheadEnds(Call(parser, "parse_statement"))
       ELSE /\ ppc' = "scan"
            /\ UNCHANGED <<parser, frame, returned, lexVars, binVars>>

\* one iteration of `while True`, up to `while parens > 0`
LookAheadStep ==
    /\ ppc = "scan"
    /\ LET i == frame.i
           token == look(parser, i)
           at == PastDots(parser, i + 2)
       IN IF IsInstance(token, "Modifier") /\ token.value # "final"
          THEN AheadEnds(Call(parser, "parse_class_or_interface_declaration"))
          ELSE /\ frame' =
                     IF IsInstance(token, "Modifier")
                     THEN [frame EXCEPT !.token = token, !.i = i + 1]
                     ELSE IF is_annotation(parser, i)
                     THEN (IF look(parser, at).value = "("
                           THEN [frame EXCEPT !.token = token, !.found_annotations = TRUE,
                                              !.i = at + 1, !.parens = 1]
                           ELSE [frame EXCEPT !.token = token, !.found_annotations = TRUE,
                                              !.i = at + 1])
                     ELSE [frame EXCEPT !.token = token]
               /\ ppc' = IF IsInstance(token, "Modifier") THEN "scan"
                         ELSE IF is_annotation(parser, i)
                         THEN (IF look(parser, at).value = "(" THEN "parens" ELSE "scan")
                         ELSE "scanned"
               /\ UNCHANGED <<parser, returned, lexVars, binVars>>

\* the test of `while parens > 0` and one iteration of it
ParensStep ==
    /\ ppc = "parens"
    /\ IF frame.parens > 0
       THEN /\ frame.i < MaxLook
            /\ frame' = [frame EXCEPT !.token = look(parser, frame.i),
                                      !.parens = ParensAfter(parser, frame.i, @),
                                      !.i = @ + 1]
            /\ ppc' = "parens"
       ELSE /\ ppc' = "scan"
            /\ frame' = frame
    /\ UNCHANGED <<parser, returned, lexVars, binVars>>

\* the statements after the loop
AfterLoop ==
    /\ ppc = "scanned"
    /\ AheadEnds(AfterLookAhead(parser, frame))

AheadNext == BlockStatementEntry \/ LookAheadStep \/ ParensStep \/ AfterLoop

SpecAhead == AheadInit /\ [][AheadNext]_vars

\* the call parse_block_statement() on the tokens of the parser, from the start
WholeCall == parse_block_statement(NewParser(parser.tokens, parser.strict_pop))

\* the steps of SpecAhead end as the call parse_block_statement() does
AheadAgrees ==
    (frame.entry = "block_statement" /\ Done) => returned = Outcome(WholeCall)

\* a call that ends looks no further than two tokens past the last one
LookWithinBound ==
    (frame.entry = "block_statement" /\ WholeCall.exc # "Diverges") =>
        frame.i <= Len(parser.tokens) + 2 /\ frame.i < MaxLook

\* past the last token an iteration of `while parens > 0` changes nothing
\* but i
StuckPastEnd ==
    [][(ppc = "parens" /\ frame.parens > 0 /\ frame.i >= Len(parser.tokens)) =>
           /\ ppc' = "parens"
           /\ frame' = [frame EXCEPT !.i = @ + 1, !.token = EndOfInputToken]]_vars

\* C24: parse_block_statement terminates on every finite token sequence: its
\* look-ahead past annotations and their argument lists in parentheses ends,
\* with a result or with a syntax error, also when the closing parenthesis of
\* an annotation's argument list is missing before the end of the input.
\* Whenever `while parens > 0` runs an iteration, a token of the input is left
\* at look(i) for it; past the last token the loop has no end (StuckPastEnd).
C24_LookAheadEnds ==
    (frame.entry = "block_statement" /\ ppc = "parens" /\ frame.parens > 0) =>
        parser.marker + frame.i < Len(parser.tokens)

\* the same for the annotations whose parentheses are closed
ClosedAnnotationsEnd ==
    (frame.entry = "block_statement" /\ ppc = "parens" /\ frame.parens > 0
        /\ WholeCall.exc # "Diverges") =>
        parser.marker + frame.i < Len(parser.tokens)

(***************************************************************************)
(* Termination of tokenize, under SpecLex and SpecScan.                    *)
(***************************************************************************)
\* C25: tokenize terminates on every finite input, in both error modes: each
\* iteration of the main scan loop either raises or leaves the scan position
\* strictly greater than it was, until the position reaches the end of the
\* text.
C25_ScanAdvances ==
    (tpc = "scan" /\ tokenizer.i < tokenizer.length) =>
        \/ LoopStep(tokenizer).t.exc # "none"
        \/ LoopStep(tokenizer).t.i > tokenizer.i

\* the case of C25: with ignore_errors an error was recorded, and the loop
\* went on from a position inside the text to a greater one
C25_Witness ==
    /\ tpc = "scan"
    /\ tokenizer.ignore_errors
    /\ tokenizer.errors # <<>>
    /\ 0 < tokenizer.i
    /\ tokenizer.i < tokenizer.length
    /\ emitted # <<>>

(***************************************************************************)
(* Specification SpecAccept: the helper methods accept, try_accept and     *)
(* would_accept, called with one acceptable value at least (as every call  *)
(* of the parser is) at any position of a token list of MaxAcceptTokens    *)
(* tokens at most.  ppc is "call" before the call and "returned" or        *)
(* "raised" after it; frame holds the arguments, the method called and the *)
(* cursor as it was before the call.                                       *)
(***************************************************************************)
MaxAcceptTokens == 3

AcceptWords == TextsOver({"a", "(", ";", "1"}, MaxAcceptTokens)

AcceptLists ==
    {<<>>, <<Val("(")>>, <<Val(";")>>, <<Cls("Identifier")>>, <<Cls("Literal")>>,
     <<Val("("), Cls("Identifier")>>, <<Cls("Identifier"), Val(";")>>,
     <<Val("a"), Val("("), Val(";")>>, <<Cls("Identifier"), Cls("Identifier")>>}

AcceptInit ==
    /\ LexIdle
    /\ BinIdle
    /\ \E words \in AcceptWords, strict_pop \in BOOLEAN :
           parser = NewParser(Tokens(words), strict_pop)
    /\ \E accepts \in AcceptLists :
           frame = [entry |-> "helper", accepts |-> accepts, method |-> "none",
                    before |-> None]
    /\ ppc = "call"
    /\ returned = Pending

\* next(self.tokens) before the call: the call is made further in the list
SkipToken ==
    /\ ppc = "call"
    /\ next(parser).exc = "none"
    /\ parser' = next(parser).p
    /\ UNCHANGED <<frame, ppc, returned, lexVars, binVars>>

\* the call of the method gave r
HelperEnds(method, r) ==
    /\ ppc = "call"
    /\ parser' = r.p
    /\ frame' = [frame EXCEPT !.method = method, !.before = parser]
    /\ ppc' = IF r.exc = "none" THEN "returned" ELSE "raised"
    /\ returned' = Outcome(r)
    /\ UNCHANGED <<lexVars, binVars>>

CallAccept == HelperEnds("accept", accept(parser, frame.accepts))

CallTryAccept == HelperEnds("try_accept", try_accept(parser, frame.accepts))

CallWouldAccept ==
    HelperEnds("would_accept", would_accept(parser, frame.accepts))

AcceptNext == SkipToken \/ CallAccept \/ CallTryAccept \/ CallWouldAccept

SpecAccept == AcceptInit /\ [][AcceptNext]_vars

\* the token of the list at offset n from the cursor p (0 for the next one),
\* or the end-of-input sentinel
TokenAfter(p, n) ==
    IF p.marker + n + 1 \in DOMAIN p.tokens THEN p.tokens[p.marker + n + 1]
    ELSE EndOfInputToken

\* the tokens from the cursor p on match the acceptable values one by one
AllMatch(p, accepts) ==
    \A n \in 1..Len(accepts) : Matches(TokenAfter(p, n - 1), accepts[n])

\* the place of the first token that does not match its acceptable value
FirstMismatch(p, accepts) ==
    CHOOSE n \in 1..Len(accepts) :
        /\ ~Matches(TokenAfter(p, n - 1), accepts[n])
        /\ \A m \in 1..(n - 1) : Matches(TokenAfter(p, m - 1), accepts[m])

\* C26: when accept meets a token that does not match the expected value or
\* kind, the JavaSyntaxError it raises carries, as its offending token (at),
\* that mismatching token itself.
C26_OffendingToken ==
    (frame.entry = "helper" /\ frame.method = "accept"
        /\ returned.exc = "JavaSyntaxError") =>
        returned.val.at = TokenAfter(frame.before,
                                     FirstMismatch(frame.before, frame.accepts) - 1)

\* the token that the error carries is the one after the mismatching token,
\* or the end-of-input sentinel
OffendingTokenIsNext ==
    (frame.entry = "helper" /\ frame.method = "accept"
        /\ returned.exc = "JavaSyntaxError") =>
        returned.val.at = TokenAfter(frame.before,
                                     FirstMismatch(frame.before, frame.accepts))

\* the cursor p is where the cursor q is
SamePlace(p, q) ==
    /\ p.tokens = q.tokens
    /\ p.marker = q.marker
    /\ p.saved_markers = q.saved_markers

\* C29: try_accept is all-or-nothing: if the next tokens match the expected
\* values or kinds position by position, it consumes exactly that many tokens
\* and returns true; otherwise it returns false and leaves the cursor
\* unchanged.  would_accept gives the same answer and never consumes a
\* token, also when its look-ahead reaches past the end of the input.
C29_AllOrNothing ==
    /\ (frame.entry = "helper" /\ frame.method = "try_accept"
           /\ frame.accepts # <<>>) =>
           /\ returned = [exc |-> "none", val |-> AllMatch(frame.before, frame.accepts)]
           /\ IF AllMatch(frame.before, frame.accepts)
              THEN /\ parser.marker = frame.before.marker + Len(frame.accepts)
                   /\ parser.tokens = frame.before.tokens
                   /\ parser.saved_markers = frame.before.saved_markers
              ELSE SamePlace(parser, frame.before)
    /\ (frame.entry = "helper" /\ frame.method = "would_accept"
           /\ frame.accepts # <<>>) =>
           /\ returned = [exc |-> "none", val |-> AllMatch(frame.before, frame.accepts)]
           /\ SamePlace(parser, frame.before)

\* a call of accept, try_accept or would_accept with no value at all raises
\* JavaParserError and leaves the cursor where it was
NoValueRaises ==
    (frame.entry = "helper" /\ frame.method # "none" /\ frame.accepts = <<>>) =>
        /\ returned.exc = "JavaParserError"
        /\ SamePlace(parser, frame.before)

\* the case of C29: try_accept took two tokens or more, and a call after one
\* token that matched met one that does not match or the end of the input
C29_Witness ==
    /\ frame.entry = "helper"
    /\ frame.method = "try_accept"
    /\ Len(frame.accepts) >= 2
    /\ \/ returned.val = TRUE /\ parser.marker = frame.before.marker + Len(frame.accepts)
       \/ /\ returned.val = FALSE
          /\ Matches(TokenAfter(frame.before, 0), frame.accepts[1])
          /\ frame.before.marker + Len(frame.accepts) > Len(parser.tokens)
          /\ parser.marker = frame.before.marker

(***************************************************************************)
(* Specification SpecSource: javalang.parse.parse(code), which is          *)
(* Parser(tokenize(code)).parse(), on the text of a class declaration      *)
(* after modifiers.  The tokenizer runs as in SpecLex, with ignore_errors  *)
(* false; when its generator is exhausted the parser is made with the      *)
(* tokens it yielded and parse_compilation_unit is called.  ppc is "idle"  *)
(* until then, and "returned" or "raised" after the call.                  *)
(***************************************************************************)
WordPublic == <<"p", "u", "b", "l", "i", "c">>

WordFinal == <<"f", "i", "n", "a", "l">>

WordSealed == <<"s", "e", "a", "l", "e", "d">>

WordNonSealed == <<"n", "o", "n", "-", "s", "e", "a", "l", "e", "d">>

WordClass == <<"c", "l", "a", "s", "s">>

WordExtends == <<"e", "x", "t", "e", "n", "d", "s">>

\* the words with a space after each
RECURSIVE Spaced(_)
Spaced(words) ==
    IF words = <<>> THEN <<>> ELSE Head(words) \o <<" ">> \o Spaced(Tail(words))

ModifierLists ==
    {<<>>, <<WordPublic>>, <<WordSealed>>, <<WordNonSealed>>, <<WordFinal>>,
     <<WordPublic, WordSealed>>, <<WordPublic, WordNonSealed>>,
     <<WordNonSealed, WordPublic>>, <<WordPublic, WordFinal>>}

ClassTexts ==
    {Spaced(<<WordClass, <<"A">>, <<"{">>, <<"}">>>>),
     Spaced(<<WordClass, <<"A">>, WordExtends, <<"B">>, <<"{">>, <<"}">>>>)}

\* a comment line that may come before the declaration
CommentLines == {<<>>, <<"/", "/", " ", "A", "\n">>}

\* texts that are no class declaration: a number, a string, a text block, a
\* character that starts no token, an operator
OtherTexts ==
    {<<"1">>, <<"\"", "a", "\"">>, <<"\"", "\"", "\"", "\n", "\"", "\"", "\"">>,
     <<"#">>, <<"-", "1", " ", "@", "A">>}

DeclarationTexts ==
    {c \o Spaced(m) \o t : c \in CommentLines, m \in ModifierLists, t \in ClassTexts}

\* the declarations with the modifier non-sealed
NonSealedTexts ==
    {c \o Spaced(m) \o t :
        c \in CommentLines, t \in ClassTexts,
        m \in {l \in ModifierLists : \E n \in 1..Len(l) : l[n] = WordNonSealed}}

SourceInit ==
    /\ \E code \in DeclarationTexts \cup OtherTexts :
           tokenizer = NewTokenizer(code, FALSE)
    /\ emitted = <<>>
    /\ tpc = "pre"
    /\ BinIdle
    /\ ParIdle

\* Parser(tokens).parse()
ParseTokens ==
    /\ tpc = "done"
    /\ ppc = "idle"
    /\ \E strict_pop \in BOOLEAN :
           \E r \in {parse_compilation_unit(NewParser(emitted, strict_pop))} :
               /\ parser' = r.p
               /\ ppc' = IF r.exc = "none" THEN "returned" ELSE "raised"
               /\ returned' = Outcome(r)
    /\ frame' = [entry |-> "parse"]
    /\ UNCHANGED <<lexVars, binVars>>

SourceNext == LexNext \/ ParseTokens

SpecSource == SourceInit /\ [][SourceNext]_vars

\* the values of the tokens
Values(tokens) == [n \in 1..Len(tokens) |-> tokens[n].value]

\* C27: the source text non-sealed is recognised as one modifier: a class
\* declared `public non-sealed class SubShape extends SuperShape { }` parses
\* to a ClassDeclaration whose modifiers contain "non-sealed".
C27_NonSealedModifier ==
    (ppc \in {"returned", "raised"} /\ tokenizer.data \in NonSealedTexts) =>
        /\ \E n \in 1..Len(emitted) :
               emitted[n].type = "Modifier" /\ emitted[n].value = "non-sealed"
        /\ ppc = "returned"
        /\ \E n \in 1..Len(returned.val.declarations) :
               /\ returned.val.declarations[n].k = "ClassDeclaration"
               /\ "non-sealed" \in returned.val.declarations[n].modifiers

\* the tokenizer gives three tokens for non-sealed, and no token non-sealed
NonSealedInThree ==
    (tpc = "done" /\ tokenizer.data \in NonSealedTexts) =>
        /\ \A n \in 1..Len(emitted) : emitted[n].value # "non-sealed"
        /\ \E n \in 1..(Len(emitted) - 2) :
               /\ emitted[n].type = "Identifier" /\ emitted[n].value = "non"
               /\ emitted[n + 1].type = "Operator" /\ emitted[n + 1].value = "-"
               /\ emitted[n + 2].type = "Modifier" /\ emitted[n + 2].value = "sealed"

\* and the parser, which has no class declaration at `non`, raises
NonSealedRejected ==
    (ppc \in {"returned", "raised"} /\ tokenizer.data \in NonSealedTexts) =>
        returned.exc = "JavaSyntaxError"

\* the modifier sealed is one token
SealedIsOneToken ==
    (tpc = "done" /\ tokenizer.data = Spaced(<<WordSealed>>) \o
                         Spaced(<<WordClass, <<"A">>, <<"{">>, <<"}">>>>)) =>
        Values(emitted) = <<"sealed", "class", "A", "{", "}">>

====
